---- MODULE Spec2Model ----
(***************************************************************************)
(* Model of the PONS revenue-intelligence core: the rule-based leak        *)
(* detector (services/leakDetector.js) with its AI collaborator, the rep   *)
(* KPI calculation, the batch lead scorer and the wasted-effort figure     *)
(* (ai/leadScoring.js), the two deal prioritizers, the health score of the *)
(* insight engine and the action engine (ai/actionRecommendations.js);     *)
(* and of its integration layer: the signed OAuth state and the OAuth      *)
(* callback, the GoHighLevel provider, the webhook provider with its       *)
(* in-memory store, and the contact validation service.                    *)
(*                                                                         *)
(* Time is counted in whole hours: a timestamp is the number of hours      *)
(* since the epoch, so hourMs is 1 and dayMs is 24.  An optional field of  *)
(* a record is a sequence of length 0 (the field is undefined / null) or 1 *)
(* (the field's value).                                                    *)
(***************************************************************************)
EXTENDS Integers, Sequences, FiniteSets, TLC

VARIABLES snapshot, nowArg, clock, runs, kpis, scored,
          ranked, rankedAll, plan, nextAction, report, wasted,
          signed, verified, connection, requests, store, validation, callback

vars == <<snapshot, nowArg, clock, runs, kpis, scored,
          ranked, rankedAll, plan, nextAction, report, wasted,
          signed, verified, connection, requests, store, validation, callback>>

\* the variables of the integration layer (OAuth state, providers, outreach)
integrationVars == <<signed, verified, connection, requests, store, validation, callback>>

\* no operation of the integration layer has run
IntegrationIdle ==
  /\ signed = <<>>
  /\ verified = <<>>
  /\ connection = <<>>
  /\ requests = <<>>
  /\ store = <<>>
  /\ validation = <<>>
  /\ callback = <<>>

----------------------------------------------------------------------------
(* Bounds of the model *)

MaxRecords == 3

----------------------------------------------------------------------------
(* Generic helpers standing for JavaScript built-ins *)

Undefined == <<>>
Some(v) == <<v>>
IsDefined(f) == Len(f) > 0
ValueOf(f) == f[1]

\* x || 0 on a numeric field
OrZero(f) == IF IsDefined(f) THEN ValueOf(f) ELSE 0

\* f >= n and f < n on a possibly undefined number: a relational comparison
\* with undefined (NaN) is false
GeNum(f, n) == IsDefined(f) /\ ValueOf(f) >= n
LtNum(f, n) == IsDefined(f) /\ ValueOf(f) < n

RECURSIVE SumSeq(_)
SumSeq(s) == IF s = <<>> THEN 0 ELSE Head(s) + SumSeq(Tail(s))

RECURSIVE MapField(_, _)
MapField(s, f) == IF s = <<>> THEN <<>> ELSE <<Head(s)[f]>> \o MapField(Tail(s), f)

MaxOf(S) == CHOOSE m \in S : \A x \in S : x <= m

SeqsUpTo(S, n) == UNION {[1..k -> S] : k \in 0..n}

----------------------------------------------------------------------------
(* Constants of the program *)

hourMs == 1
dayMs == 24

STALE_DAYS == 30
RESPONSE_HOURS == 24
HIGH_VALUE_DEAL == 10000
CRITICAL_VALUE_DEAL == 50000
MIN_WEEKLY_ACTIVITIES == 10

\* LEAK_TYPES without the last three types
LeakTypesShort ==
  {"STALE_OPPORTUNITY", "UNTOUCHED_LEAD", "SLOW_RESPONSE", "ABANDONED_DEAL",
   "MISSING_FOLLOW_UP", "NO_ACTIVITY_REP", "UNASSIGNED_LEAD", "DEAD_PIPELINE",
   "LOST_WITHOUT_REASON"}

LEAK_TYPES ==
  {"STALE_OPPORTUNITY", "UNTOUCHED_LEAD", "SLOW_RESPONSE", "ABANDONED_DEAL",
   "MISSING_FOLLOW_UP", "NO_ACTIVITY_REP", "UNASSIGNED_LEAD", "DEAD_PIPELINE",
   "LOST_WITHOUT_REASON", "HIGH_VALUE_AT_RISK", "QUOTE_NO_FOLLOW_UP",
   "GHOST_CUSTOMER"}

severityOrder == [CRITICAL |-> 0, HIGH |-> 1, MEDIUM |-> 2, LOW |-> 3]

----------------------------------------------------------------------------
(* detectLeaks *)

\* activityByContact.get(contactId) || []
activityByContact(activities, contactId) ==
  SelectSeq(activities, LAMBDA a : a.contactId = contactId)

\* activityByRep.get(repId) || []
activityByRep(activities, repId) ==
  SelectSeq(activities, LAMBDA a : a.performedBy = repId)

openOppsOf(opportunities) == SelectSeq(opportunities, LAMBDA o : o.status = "open")

\* Math.max(...contactActivities.map(createdAt)) or opp.createdAt
lastActivityDate(opp, activities) ==
  LET ca == activityByContact(activities, opp.contactId)
  IN IF Len(ca) > 0 THEN MaxOf({ca[i].createdAt : i \in 1..Len(ca)})
     ELSE opp.createdAt

Leak(id, type, severity, impactedCount, estimatedRevenue, relatedIds) ==
  [id |-> id, type |-> type, severity |-> severity,
   impactedCount |-> impactedCount, estimatedRevenue |-> estimatedRevenue,
   relatedIds |-> relatedIds]

\* LEAK TYPE 1
StaleSeverity(opp) ==
  IF GeNum(opp.value, CRITICAL_VALUE_DEAL) THEN "CRITICAL"
  ELSE IF GeNum(opp.value, HIGH_VALUE_DEAL) THEN "HIGH" ELSE "MEDIUM"

\* IsStale counting from the creation of the opportunity, whatever the activities
StaleSinceCreation(opp, activities, nowTime) ==
  ((nowTime - opp.createdAt) \div dayMs) > STALE_DAYS

IsStale(opp, activities, nowTime) ==
  ((nowTime - lastActivityDate(opp, activities)) \div dayMs) > STALE_DAYS

RECURSIVE StaleLeaks(_, _, _)
StaleLeaks(opps, activities, nowTime) ==
  IF opps = <<>> THEN <<>>
  ELSE LET opp == Head(opps)
       IN (IF IsStale(opp, activities, nowTime)
           THEN <<Leak(<<"stale_opp", opp.id>>, "STALE_OPPORTUNITY",
                       StaleSeverity(opp), 1, OrZero(opp.value), <<opp.id>>)>>
           ELSE <<>>)
          \o StaleLeaks(Tail(opps), activities, nowTime)

\* LEAK TYPE 2
IsUntouched(lead, nowTime) ==
  ((nowTime - lead.createdAt) \div dayMs) > 1

RECURSIVE UntouchedLeaks(_, _)
UntouchedLeaks(newLeads, nowTime) ==
  IF newLeads = <<>> THEN <<>>
  ELSE LET lead == Head(newLeads)
           daysSinceCreated == (nowTime - lead.createdAt) \div dayMs
       IN (IF IsUntouched(lead, nowTime)
           THEN <<Leak(<<"untouched_lead", lead.id>>, "UNTOUCHED_LEAD",
                       IF daysSinceCreated > 7 THEN "HIGH" ELSE "MEDIUM",
                       1, 5000, <<lead.id>>)>>
           ELSE <<>>)
          \o UntouchedLeaks(Tail(newLeads), nowTime)

\* LEAK TYPE 3: responseHours is compared as a real number
RECURSIVE SlowResponseLeaks(_)
SlowResponseLeaks(leads) ==
  IF leads = <<>> THEN <<>>
  ELSE LET lead == Head(leads)
           responseTime == ValueOf(lead.firstContactedAt) - lead.createdAt
       IN (IF IsDefined(lead.firstContactedAt)
              /\ responseTime > RESPONSE_HOURS * hourMs
           THEN <<Leak(<<"slow_response", lead.id>>, "SLOW_RESPONSE",
                       IF responseTime > 72 * hourMs THEN "HIGH" ELSE "MEDIUM",
                       1, 0, <<lead.id>>)>>
           ELSE <<>>)
          \o SlowResponseLeaks(Tail(leads))

RECURSIVE SumValues(_)
SumValues(opps) ==
  IF opps = <<>> THEN 0 ELSE OrZero(Head(opps).value) + SumValues(Tail(opps))

\* LEAK TYPE 4
AbandonedLeaks(opportunities, nowTime) ==
  LET abandonedOpps == SelectSeq(opportunities,
                         LAMBDA o : o.status = "abandoned" \/ o.status = "lost")
      recentAbandoned == SelectSeq(abandonedOpps,
                         LAMBDA o : nowTime - o.updatedAt <= 90 * dayMs)
      totalValue == SumValues(recentAbandoned)
  IN IF Len(recentAbandoned) > 0
     THEN <<Leak(<<"abandoned_deals_batch">>, "ABANDONED_DEAL",
                 IF totalValue > 100000 THEN "HIGH" ELSE "MEDIUM",
                 Len(recentAbandoned), totalValue \div 10,
                 MapField(recentAbandoned, "id"))>>
     ELSE <<>>

\* LEAK TYPE 5
RECURSIVE MissingFollowUpLeaks(_, _, _)
MissingFollowUpLeaks(opps, activities, nowTime) ==
  IF opps = <<>> THEN <<>>
  ELSE LET opp == Head(opps)
           touched == SelectSeq(activityByContact(activities, opp.contactId),
                        LAMBDA a : a.outcome = "completed" \/ a.type = "meeting")
           lastAt == MaxOf({touched[i].createdAt : i \in 1..Len(touched)})
           daysSince == (nowTime - lastAt) \div dayMs
       IN (IF Len(touched) > 0 /\ daysSince >= 7 /\ daysSince < STALE_DAYS
           THEN <<Leak(<<"missing_followup", opp.id>>, "MISSING_FOLLOW_UP",
                       "MEDIUM", 1, OrZero(opp.value), <<opp.id>>)>>
           ELSE <<>>)
          \o MissingFollowUpLeaks(Tail(opps), activities, nowTime)

\* LEAK TYPE 6
RECURSIVE InactiveRepLeaks(_, _, _, _)
InactiveRepLeaks(reps, openOpps, activities, nowTime) ==
  IF reps = <<>> THEN <<>>
  ELSE LET rep == Head(reps)
           thirtyDaysAgo == nowTime - 30 * dayMs
           recentActivities == SelectSeq(activityByRep(activities, rep.id),
                                 LAMBDA a : a.createdAt > thirtyDaysAgo)
           assignedOpps == SelectSeq(openOpps, LAMBDA o : o.assignedTo = rep.id)
           atRisk == SumValues(assignedOpps)
       IN (IF rep.active
              /\ Len(recentActivities) < MIN_WEEKLY_ACTIVITIES * 4
              /\ Len(assignedOpps) > 0
           THEN <<Leak(<<"inactive_rep", rep.id>>, "NO_ACTIVITY_REP",
                       IF atRisk > 50000 THEN "HIGH" ELSE "MEDIUM",
                       Len(assignedOpps), atRisk,
                       <<rep.id>> \o MapField(assignedOpps, "id"))>>
           ELSE <<>>)
          \o InactiveRepLeaks(Tail(reps), openOpps, activities, nowTime)

\* LEAK TYPE 7
UnassignedLeaks(leads) ==
  LET unassignedLeads == SelectSeq(leads,
                           LAMBDA l : ~IsDefined(l.assignedTo) /\ l.status # "unqualified")
  IN IF Len(unassignedLeads) > 0
     THEN <<Leak(<<"unassigned_leads_batch">>, "UNASSIGNED_LEAD",
                 IF Len(unassignedLeads) > 10 THEN "HIGH" ELSE "MEDIUM",
                 Len(unassignedLeads), Len(unassignedLeads) * 3000,
                 MapField(unassignedLeads, "id"))>>
     ELSE <<>>

\* LEAK TYPE 8
DeadPipelineLeaks(openOpps, nowTime) ==
  LET stuckOpps == SelectSeq(openOpps, LAMBDA o : nowTime - o.updatedAt > 14 * dayMs)
      stuckValue == SumValues(stuckOpps)
  IN IF Len(stuckOpps) >= 3
     THEN <<Leak(<<"dead_pipeline_batch">>, "DEAD_PIPELINE",
                 IF stuckValue > 100000 THEN "HIGH" ELSE "MEDIUM",
                 Len(stuckOpps), stuckValue, MapField(stuckOpps, "id"))>>
     ELSE <<>>

\* LEAK TYPE 9
LostNoReasonLeaks(opportunities) ==
  LET lostNoReason == SelectSeq(opportunities,
        LAMBDA o : o.status = "lost"
                   /\ (~IsDefined(o.lostReason) \/ ValueOf(o.lostReason) = "unknown"
                       \/ ValueOf(o.lostReason) = ""))
  IN IF Len(lostNoReason) > 0
     THEN <<Leak(<<"lost_no_reason_batch">>, "LOST_WITHOUT_REASON", "MEDIUM",
                 Len(lostNoReason), 0, MapField(lostNoReason, "id"))>>
     ELSE <<>>

\* LEAK TYPE 10: the filter.  opp.value < HIGH_VALUE_DEAL is false for an
\* undefined value, so such an opportunity is not filtered out by it.
IsHighValueAtRisk(opp, activities, nowTime) ==
  /\ ~LtNum(opp.value, HIGH_VALUE_DEAL)
  /\ nowTime - lastActivityDate(opp, activities) > 7 * dayMs

highValueAtRiskOf(openOpps, activities, nowTime) ==
  SelectSeq(openOpps, LAMBDA o : IsHighValueAtRisk(o, activities, nowTime))

\* LEAK TYPE 10: the loop.  opp.value.toLocaleString() in the description
\* throws a TypeError when opp.value is undefined.
HighValueThrows(highValueAtRisk) ==
  \E i \in 1..Len(highValueAtRisk) : ~IsDefined(highValueAtRisk[i].value)

RECURSIVE HighValueLeaks(_)
HighValueLeaks(highValueAtRisk) ==
  IF highValueAtRisk = <<>> THEN <<>>
  ELSE LET opp == Head(highValueAtRisk)
       IN <<Leak(<<"high_value_risk", opp.id>>, "HIGH_VALUE_AT_RISK",
                 IF GeNum(opp.value, CRITICAL_VALUE_DEAL) THEN "CRITICAL" ELSE "HIGH",
                 1, OrZero(opp.value), <<opp.id>>)>>
          \o HighValueLeaks(Tail(highValueAtRisk))

\* LeakCompare with the severity comparison dropped
RevenueOnlyCompare(a, b) == b.estimatedRevenue - a.estimatedRevenue

\* the comparator of leaks.sort: negative when a sorts before b
LeakCompare(a, b) ==
  LET severityDiff == severityOrder[a.severity] - severityOrder[b.severity]
  IN IF severityDiff # 0 THEN severityDiff
     ELSE b.estimatedRevenue - a.estimatedRevenue

\* Array.prototype.sort is stable: x goes after every element it does not
\* strictly precede
RECURSIVE InsertLeak(_, _)
InsertLeak(sorted, x) ==
  IF sorted = <<>> THEN <<x>>
  ELSE IF LeakCompare(x, Head(sorted)) < 0 THEN <<x>> \o sorted
  ELSE <<Head(sorted)>> \o InsertLeak(Tail(sorted), x)

RECURSIVE SortLeaks(_)
SortLeaks(leaks) ==
  IF leaks = <<>> THEN <<>>
  ELSE InsertLeak(SortLeaks(SubSeq(leaks, 1, Len(leaks) - 1)), leaks[Len(leaks)])

CountSeverity(leaks, sev) == Len(SelectSeq(leaks, LAMBDA l : l.severity = sev))

LeaksOfType(leaks, type) == SelectSeq(leaks, LAMBDA l : l.type = type)

ByType(leaks) ==
  [type \in {t \in LEAK_TYPES : Len(LeaksOfType(leaks, t)) > 0} |->
     [count |-> Len(LeaksOfType(leaks, type)),
      revenue |-> SumSeq(MapField(LeaksOfType(leaks, type), "estimatedRevenue"))]]

Summary(leaks) ==
  [totalLeaks |-> Len(leaks),
   criticalCount |-> CountSeverity(leaks, "CRITICAL"),
   highCount |-> CountSeverity(leaks, "HIGH"),
   mediumCount |-> CountSeverity(leaks, "MEDIUM"),
   lowCount |-> CountSeverity(leaks, "LOW"),
   totalEstimatedRevenue |-> SumSeq(MapField(leaks, "estimatedRevenue")),
   byType |-> ByType(leaks)]

\* the leaks in the order the rules push them
CollectLeaks(snap, nowTime) ==
  LET openOpps == openOppsOf(snap.opportunities)
      newLeads == SelectSeq(snap.leads,
                    LAMBDA l : l.status = "new" /\ ~IsDefined(l.firstContactedAt))
  IN StaleLeaks(openOpps, snap.activities, nowTime)
     \o UntouchedLeaks(newLeads, nowTime)
     \o SlowResponseLeaks(snap.leads)
     \o AbandonedLeaks(snap.opportunities, nowTime)
     \o MissingFollowUpLeaks(openOpps, snap.activities, nowTime)
     \o InactiveRepLeaks(snap.reps, openOpps, snap.activities, nowTime)
     \o UnassignedLeaks(snap.leads)
     \o DeadPipelineLeaks(openOpps, nowTime)
     \o LostNoReasonLeaks(snap.opportunities)
     \o HighValueLeaks(highValueAtRiskOf(openOpps, snap.activities, nowTime))

\* NowOf reading the wall clock although the caller passed a now
AlwaysWallClock(arg, wallClock) == wallClock

\* now = new Date() when the caller passes no now
NowOf(arg, wallClock) == IF IsDefined(arg) THEN ValueOf(arg) ELSE wallClock

\* the outcome of one call with includeAI = false: the returned object, or
\* the TypeError thrown out of the high-value rule
detectLeaks(snap, arg, wallClock) ==
  LET nowTime == NowOf(arg, wallClock)
      openOpps == openOppsOf(snap.opportunities)
      leaks == SortLeaks(CollectLeaks(snap, nowTime))
  IN IF HighValueThrows(highValueAtRiskOf(openOpps, snap.activities, nowTime))
     THEN [threw |-> TRUE]
     ELSE [threw |-> FALSE, leaks |-> leaks, summary |-> Summary(leaks),
           aiInsights |-> Undefined, generatedAt |-> nowTime]

----------------------------------------------------------------------------
(* Inputs of the leak detector *)

NowChoices == {2400}

OppShapes ==
  {[value |-> Undefined, status |-> "open", createdAt |-> 2400 - 60 * 24],
   [value |-> Some(5000), status |-> "open", createdAt |-> 2400 - 60 * 24],
   [value |-> Some(10000), status |-> "open", createdAt |-> 2400 - 60 * 24],
   [value |-> Some(50000), status |-> "open", createdAt |-> 2400 - 60 * 24],
   [value |-> Some(50000), status |-> "open", createdAt |-> 2400 - 10 * 24],
   [value |-> Some(10000), status |-> "open", createdAt |-> 2400 - 10 * 24],
   [value |-> Some(5000), status |-> "open", createdAt |-> 2400 - 10 * 24],
   [value |-> Undefined, status |-> "open", createdAt |-> 2400 - 2 * 24],
   [value |-> Some(5000), status |-> "lost", createdAt |-> 2400 - 10 * 24],
   [value |-> Some(10000), status |-> "won", createdAt |-> 2400 - 60 * 24]}

ActShapes ==
  {[type |-> "meeting", outcome |-> "scheduled", createdAt |-> 2400 - 20 * 24],
   [type |-> "call", outcome |-> "no_answer", createdAt |-> 2400 - 40 * 24],
   [type |-> "call", outcome |-> "completed", createdAt |-> 2400 - 5 * 24]}

LeadShapes ==
  {[status |-> "new", createdAt |-> 2400 - 25, firstContactedAt |-> Undefined,
    assignedTo |-> Undefined],
   [status |-> "new", createdAt |-> 2400 - 3 * 24, firstContactedAt |-> Undefined,
    assignedTo |-> Some("rep_1")],
   [status |-> "new", createdAt |-> 2400 - 10 * 24, firstContactedAt |-> Undefined,
    assignedTo |-> Undefined],
   [status |-> "contacted", createdAt |-> 2400 - 10 * 24,
    firstContactedAt |-> Some(2400 - 10 * 24 + 100), assignedTo |-> Some("rep_1")]}

MkOpps(shapes) ==
  [i \in 1..Len(shapes) |->
     [id |-> i, contactId |-> i, value |-> shapes[i].value, status |-> shapes[i].status,
      createdAt |-> shapes[i].createdAt, updatedAt |-> shapes[i].createdAt,
      assignedTo |-> "rep_1", lostReason |-> Undefined]]

MkActs(shapes) ==
  [i \in 1..Len(shapes) |->
     [id |-> i, contactId |-> 1, performedBy |-> "rep_1", type |-> shapes[i].type,
      outcome |-> shapes[i].outcome, createdAt |-> shapes[i].createdAt]]

MkLeads(shapes) ==
  [i \in 1..Len(shapes) |->
     [id |-> i, status |-> shapes[i].status, createdAt |-> shapes[i].createdAt,
      firstContactedAt |-> shapes[i].firstContactedAt,
      assignedTo |-> shapes[i].assignedTo]]

\* the triples of lengths whose sum is at most n
Lengths(n) == {t \in (0..n) \X (0..n) \X (0..n) : t[1] + t[2] + t[3] <= n}

LeakSnapshot(o, a, l) ==
  [call |-> "detectLeaks",
   opportunities |-> MkOpps(o), activities |-> MkActs(a), leads |-> MkLeads(l),
   reps |-> <<[id |-> "rep_1", name |-> "Rep", active |-> TRUE]>>]

----------------------------------------------------------------------------
(* The leak detector called twice on one snapshot while the wall clock       *)
(* advances                                                                  *)

Init ==
  /\ \E t \in Lengths(MaxRecords) :
       \E o \in [1..t[1] -> OppShapes], a \in [1..t[2] -> ActShapes],
          l \in [1..t[3] -> LeadShapes] :
         snapshot = LeakSnapshot(o, a, l)
  /\ nowArg \in {Undefined} \cup {Some(n) : n \in NowChoices}
  /\ clock \in NowChoices
  /\ runs = <<>>
  /\ kpis = <<>>
  /\ scored = <<>>
  /\ ranked = <<>>
  /\ rankedAll = <<>>
  /\ plan = <<>>
  /\ nextAction = <<>>
  /\ report = <<>>
  /\ wasted = <<>>
  /\ IntegrationIdle

DetectLeaks ==
  /\ Len(runs) < 2
  /\ runs' = Append(runs, detectLeaks(snapshot, nowArg, clock))
  /\ UNCHANGED <<integrationVars, snapshot, nowArg, clock, kpis, scored,
               ranked, rankedAll, plan, nextAction, report, wasted>>

\* the wall clock moves on between two calls
Tick ==
  /\ Len(runs) > 0
  /\ Len(runs) < 2
  /\ clock \in NowChoices
  /\ clock' = clock + dayMs
  /\ UNCHANGED <<integrationVars, snapshot, nowArg, runs, kpis, scored,
               ranked, rankedAll, plan, nextAction, report, wasted>>

Next == DetectLeaks \/ Tick

Spec == Init /\ [][Next]_vars

----------------------------------------------------------------------------
(* Properties of the leak detector *)

Returned(r) == ~r.threw
LeaksOf(r) == IF r.threw THEN <<>> ELSE r.leaks

\* the runs whose now is known: now was passed, or the result carries it
KnownRuns == {k \in 1..Len(runs) : IsDefined(nowArg) \/ Returned(runs[k])}
RunNow(k) == IF Returned(runs[k]) THEN runs[k].generatedAt ELSE ValueOf(nowArg)

SeverityRank(sev) ==
  CASE sev = "CRITICAL" -> 0 [] sev = "HIGH" -> 1 [] sev = "MEDIUM" -> 2 [] OTHER -> 3

LeaksAbout(r, type, id) ==
  SelectSeq(LeaksOf(r), LAMBDA l : l.type = type /\ l.relatedIds = <<id>>)

\* whole days between the latest activity on the opportunity's contact (its
\* creation when the contact has none) and now
IdleSince(o) ==
  LET touches == {snapshot.activities[i].createdAt : i \in
                    {j \in 1..Len(snapshot.activities) :
                       snapshot.activities[j].contactId = o.contactId}}
  IN IF touches = {} THEN o.createdAt
     ELSE CHOOSE t \in touches : \A u \in touches : u <= t

\* C1: in a returned leak list every leak's severity rank is at most its
\* successor's, and of two adjacent leaks of equal severity the earlier has
\* at least the later's estimatedRevenue
C1_LeaksSorted ==
  \A k \in 1..Len(runs) : Returned(runs[k]) =>
    \A i \in 1..(Len(runs[k].leaks) - 1) :
      LET a == runs[k].leaks[i]
          b == runs[k].leaks[i + 1]
      IN /\ SeverityRank(a.severity) <= SeverityRank(b.severity)
         /\ a.severity = b.severity => a.estimatedRevenue >= b.estimatedRevenue

\* a returned list in which a higher-severity leak precedes a leak of lower
\* severity and higher revenue, and two leaks share a severity
C1_Witness ==
  \E k \in 1..Len(runs) : Returned(runs[k]) /\
    \E i, j \in 1..Len(runs[k].leaks) :
      /\ i < j
      /\ SeverityRank(runs[k].leaks[i].severity) < SeverityRank(runs[k].leaks[j].severity)
      /\ runs[k].leaks[i].estimatedRevenue < runs[k].leaks[j].estimatedRevenue
      /\ \E m \in 1..Len(runs[k].leaks) :
           /\ m # j
           /\ runs[k].leaks[m].severity = runs[k].leaks[j].severity
           /\ runs[k].leaks[m].estimatedRevenue # runs[k].leaks[j].estimatedRevenue

\* C2: when an open opportunity has no value, detectLeaks returns and its
\* list holds no HIGH_VALUE_AT_RISK leak for that opportunity
C2_MissingValueTolerated ==
  \A k \in 1..Len(runs) :
    \A i \in 1..Len(snapshot.opportunities) :
      LET o == snapshot.opportunities[i]
      IN (o.status = "open" /\ ~IsDefined(o.value)) =>
           /\ Returned(runs[k])
           /\ LeaksAbout(runs[k], "HIGH_VALUE_AT_RISK", o.id) = <<>>

\* C3: two calls on the same snapshot with the same explicit now have the
\* same outcome, whatever the wall clock reads at each call
C3_Deterministic ==
  IsDefined(nowArg) => \A j, k \in 1..Len(runs) : runs[j] = runs[k]

\* two calls with an explicit now, the wall clock a day further at the
\* second, both returning leaks
C3_Witness ==
  /\ IsDefined(nowArg)
  /\ Len(runs) = 2
  /\ clock \notin NowChoices
  /\ Returned(runs[2])
  /\ Len(runs[2].leaks) > 1

\* C4: an open opportunity has exactly one STALE_OPPORTUNITY leak when it
\* has been idle for more than 30 whole days and none otherwise, with the
\* opportunity's value as estimatedRevenue and the severity of its value
\* band; an opportunity of another status has none
C4_StaleRule ==
  \A k \in KnownRuns :
    \A i \in 1..Len(snapshot.opportunities) :
      LET o == snapshot.opportunities[i]
          found == LeaksAbout(runs[k], "STALE_OPPORTUNITY", o.id)
          days == (RunNow(k) - IdleSince(o)) \div 24
          v == OrZero(o.value)
      IN IF o.status = "open" /\ days > 30
         THEN /\ Len(found) = 1
              /\ found[1].estimatedRevenue = v
              /\ found[1].severity = (IF v >= 50000 THEN "CRITICAL"
                                      ELSE IF v >= 10000 THEN "HIGH" ELSE "MEDIUM")
         ELSE found = <<>>

\* C5: a lead with status new and no firstContactedAt that is at least 2
\* whole days old has exactly one UNTOUCHED_LEAD leak, MEDIUM up to 7 days
\* and HIGH beyond; any other lead has none
C5_UntouchedRule ==
  \A k \in KnownRuns :
    \A i \in 1..Len(snapshot.leads) :
      LET l == snapshot.leads[i]
          found == LeaksAbout(runs[k], "UNTOUCHED_LEAD", l.id)
          age == (RunNow(k) - l.createdAt) \div 24
      IN IF l.status = "new" /\ ~IsDefined(l.firstContactedAt) /\ age >= 2
         THEN /\ Len(found) = 1
              /\ found[1].severity = (IF age <= 7 THEN "MEDIUM" ELSE "HIGH")
         ELSE found = <<>>

SumRevenue(leaks) ==
  LET RECURSIVE Go(_)
      Go(n) == IF n = 0 THEN 0 ELSE leaks[n].estimatedRevenue + Go(n - 1)
  IN Go(Len(leaks))

SumOver(f, S) ==
  LET RECURSIVE Go(_)
      Go(T) == IF T = {} THEN 0
               ELSE LET x == CHOOSE y \in T : TRUE IN f[x] + Go(T \ {x})
  IN Go(S)

\* C7: in a returned result totalLeaks is the length of the list and the sum
\* of the four severity counts, totalEstimatedRevenue is the sum of the
\* leaks' estimatedRevenue, and the byType counts and revenues add up to both
C7_SummaryAddsUp ==
  \A k \in 1..Len(runs) : Returned(runs[k]) =>
    LET s == runs[k].summary
        types == DOMAIN s.byType
    IN /\ s.totalLeaks = Len(runs[k].leaks)
       /\ s.totalLeaks = s.criticalCount + s.highCount + s.mediumCount + s.lowCount
       /\ s.totalEstimatedRevenue = SumRevenue(runs[k].leaks)
       /\ SumOver([t \in types |-> s.byType[t].count], types) = s.totalLeaks
       /\ SumOver([t \in types |-> s.byType[t].revenue], types) = s.totalEstimatedRevenue

\* a returned result with leaks of three severities and of four types, one
\* of them the last rule's
C7_Witness ==
  \E k \in 1..Len(runs) : Returned(runs[k]) /\
    /\ runs[k].summary.criticalCount > 0
    /\ runs[k].summary.highCount > 0
    /\ runs[k].summary.mediumCount > 0
    /\ Cardinality(DOMAIN runs[k].summary.byType) >= 4
    /\ "HIGH_VALUE_AT_RISK" \in DOMAIN runs[k].summary.byType
    /\ runs[k].summary.totalEstimatedRevenue > 0

BatchTypes == {"ABANDONED_DEAL", "UNASSIGNED_LEAD", "DEAD_PIPELINE", "LOST_WITHOUT_REASON"}

\* C8: an open opportunity worth at least 10000 that has been idle for more
\* than 30 days has a STALE_OPPORTUNITY leak and a HIGH_VALUE_AT_RISK leak,
\* both carrying its value into totalEstimatedRevenue; no two leaks of a
\* result share an id, and each batch rule has at most one leak
C8_RulesIndependent ==
  \A k \in KnownRuns :
    /\ \A i \in 1..Len(snapshot.opportunities) :
         LET o == snapshot.opportunities[i]
             stale == LeaksAbout(runs[k], "STALE_OPPORTUNITY", o.id)
             risk == LeaksAbout(runs[k], "HIGH_VALUE_AT_RISK", o.id)
         IN (/\ o.status = "open"
             /\ GeNum(o.value, 10000)
             /\ RunNow(k) - IdleSince(o) > 30 * 24) =>
              /\ Len(stale) = 1
              /\ Len(risk) = 1
              /\ stale[1].estimatedRevenue = ValueOf(o.value)
              /\ risk[1].estimatedRevenue = ValueOf(o.value)
              /\ runs[k].summary.totalEstimatedRevenue >= 2 * ValueOf(o.value)
    /\ \A i, j \in 1..Len(LeaksOf(runs[k])) :
         LeaksOf(runs[k])[i].id = LeaksOf(runs[k])[j].id => i = j
    /\ \A t \in BatchTypes :
         Len(SelectSeq(LeaksOf(runs[k]), LAMBDA l : l.type = t)) <= 1

----------------------------------------------------------------------------
(* calculateRepKPIs.  winRate is kept in tenths of a percent: 667 stands    *)
(* for 66.7.                                                                *)

\* Math.floor(n / d): a quotient cut down instead of rounded
FloorDiv(n, d) == n \div d

\* Math.round(n / d) for n >= 0, d > 0
RoundDiv(n, d) == (2 * n + d) \div (2 * d)

\* Math.round(((won / closed) * 100) * 10), the numerator of winRate
WinRateTenths(won, closed) == IF closed > 0 THEN RoundDiv(1000 * won, closed) ELSE 0

RepKPI(rep, opportunities, activities, nowTime) ==
  LET weekAgo == nowTime - 7 * dayMs
      twoWeeksAgo == nowTime - 14 * dayMs
      repOpps == SelectSeq(opportunities, LAMBDA o : o.assignedTo = rep.id)
      repActivities == SelectSeq(activities, LAMBDA a : a.performedBy = rep.id)
      openOpps == SelectSeq(repOpps, LAMBDA o : o.status = "open")
      wonOpps == SelectSeq(repOpps, LAMBDA o : o.status = "won")
      lostOpps == SelectSeq(repOpps, LAMBDA o : o.status = "lost")
      closedOpps == wonOpps \o lostOpps
      totalRevenue == SumValues(wonOpps)
      activitiesThisWeek ==
        Len(SelectSeq(repActivities, LAMBDA a : a.createdAt > weekAgo))
      activitiesLastWeek ==
        Len(SelectSeq(repActivities,
              LAMBDA a : a.createdAt > twoWeeksAgo /\ a.createdAt <= weekAgo))
      staleDeals == Len(SelectSeq(openOpps, LAMBDA o : nowTime - o.updatedAt > 30 * dayMs))
  IN [repId |-> rep.id,
      repName |-> rep.name,
      totalOpportunities |-> Len(repOpps),
      openOpportunities |-> Len(openOpps),
      wonOpportunities |-> Len(wonOpps),
      lostOpportunities |-> Len(lostOpps),
      winRate |-> WinRateTenths(Len(wonOpps), Len(closedOpps)),
      totalRevenue |-> totalRevenue,
      avgDealSize |-> IF Len(wonOpps) > 0 THEN RoundDiv(totalRevenue, Len(wonOpps)) ELSE 0,
      avgDaysToClose |-> 0,
      activitiesThisWeek |-> activitiesThisWeek,
      activitiesLastWeek |-> activitiesLastWeek,
      \* Math.round rounds a half towards plus infinity, also below zero
      activityTrend |-> IF activitiesLastWeek > 0
                        THEN (2 * 100 * (activitiesThisWeek - activitiesLastWeek)
                                + activitiesLastWeek) \div (2 * activitiesLastWeek)
                        ELSE 0,
      responseTime |-> 0,
      staleDeals |-> staleDeals]

\* kpis.sort((a, b) => b.totalRevenue - a.totalRevenue), a stable sort
RECURSIVE InsertKPI(_, _)
InsertKPI(sorted, x) ==
  IF sorted = <<>> THEN <<x>>
  ELSE IF Head(sorted).totalRevenue - x.totalRevenue < 0 THEN <<x>> \o sorted
  ELSE <<Head(sorted)>> \o InsertKPI(Tail(sorted), x)

RECURSIVE SortKPIs(_)
SortKPIs(list) ==
  IF list = <<>> THEN <<>>
  ELSE InsertKPI(SortKPIs(SubSeq(list, 1, Len(list) - 1)), list[Len(list)])

calculateRepKPIs(snap, arg, wallClock) ==
  SortKPIs([i \in 1..Len(snap.reps) |->
              RepKPI(snap.reps[i], snap.opportunities, snap.activities,
                     NowOf(arg, wallClock))])

----------------------------------------------------------------------------
(* Inputs of calculateRepKPIs *)

MaxKpiOpps == 4

KpiOppShapes ==
  {[assignedTo |-> "rep_1", status |-> "won", value |-> Some(10000)],
   [assignedTo |-> "rep_1", status |-> "won", value |-> Some(20000)],
   [assignedTo |-> "rep_1", status |-> "lost", value |-> Some(5000)],
   [assignedTo |-> "rep_1", status |-> "open", value |-> Some(15000)],
   [assignedTo |-> "rep_2", status |-> "won", value |-> Undefined]}

KpiReps ==
  {<<[id |-> "rep_1", name |-> "Test Rep", active |-> TRUE]>>,
   <<[id |-> "rep_1", name |-> "Test Rep", active |-> TRUE],
     [id |-> "rep_2", name |-> "Other Rep", active |-> TRUE]>>,
   <<[id |-> "rep_3", name |-> "Idle Rep", active |-> TRUE],
     [id |-> "rep_1", name |-> "Test Rep", active |-> TRUE]>>}

KpiActivities ==
  {<<>>,
   <<[id |-> 1, contactId |-> 1, performedBy |-> "rep_1", type |-> "call",
      outcome |-> "completed", createdAt |-> 2400]>>,
   <<[id |-> 1, contactId |-> 1, performedBy |-> "rep_1", type |-> "call",
      outcome |-> "completed", createdAt |-> 2400 - 10 * 24]>>}

MkKpiOpps(shapes) ==
  [i \in 1..Len(shapes) |->
     [id |-> i, contactId |-> i, value |-> shapes[i].value, status |-> shapes[i].status,
      createdAt |-> 2400 - 60 * 24, updatedAt |-> 2400 - 60 * 24,
      assignedTo |-> shapes[i].assignedTo, lostReason |-> Undefined]]

InitKPI ==
  /\ \E o \in SeqsUpTo(KpiOppShapes, MaxKpiOpps), a \in KpiActivities, r \in KpiReps :
       snapshot = [opportunities |-> MkKpiOpps(o), activities |-> a, leads |-> <<>>,
                   reps |-> r]
  /\ nowArg \in {Some(n) : n \in NowChoices}
  /\ clock \in NowChoices
  /\ runs = <<>>
  /\ kpis = <<>>
  /\ scored = <<>>
  /\ ranked = <<>>
  /\ rankedAll = <<>>
  /\ plan = <<>>
  /\ nextAction = <<>>
  /\ report = <<>>
  /\ wasted = <<>>
  /\ IntegrationIdle

CalculateRepKPIs ==
  /\ kpis = <<>>
  /\ kpis' = Some(calculateRepKPIs(snapshot, nowArg, clock))
  /\ UNCHANGED <<integrationVars, snapshot, nowArg, clock, runs, scored,
               ranked, rankedAll, plan, nextAction, report, wasted>>

NextKPI == CalculateRepKPIs

SpecKPI == InitKPI /\ [][NextKPI]_vars

CountOpps(repId, status) ==
  Cardinality({i \in 1..Len(snapshot.opportunities) :
                 /\ snapshot.opportunities[i].assignedTo = repId
                 /\ snapshot.opportunities[i].status = status})

WonRevenue(repId) ==
  LET RECURSIVE Go(_)
      Go(n) == IF n = 0 THEN 0
               ELSE LET o == snapshot.opportunities[n]
                    IN (IF o.assignedTo = repId /\ o.status = "won" /\ IsDefined(o.value)
                        THEN ValueOf(o.value) ELSE 0) + Go(n - 1)
  IN Go(Len(snapshot.opportunities))

\* C6: the result has one record per rep; its won, lost and open counts are
\* the numbers of the rep's opportunities of that status, totalRevenue is the
\* sum of the won values, and winRate is 100 * won / (won + lost) rounded to
\* one decimal, 0 when the rep has no won and no lost opportunity
C6_RepKPIs ==
  kpis # <<>> =>
    LET result == ValueOf(kpis)
    IN /\ Len(result) = Len(snapshot.reps)
       /\ \A i \in 1..Len(snapshot.reps) :
            LET id == snapshot.reps[i].id
                recs == {j \in 1..Len(result) : result[j].repId = id}
                won == CountOpps(id, "won")
                lost == CountOpps(id, "lost")
            IN /\ Cardinality(recs) = 1
               /\ \A j \in recs :
                    /\ result[j].wonOpportunities = won
                    /\ result[j].lostOpportunities = lost
                    /\ result[j].openOpportunities = CountOpps(id, "open")
                    /\ result[j].totalRevenue = WonRevenue(id)
                    /\ IF won + lost = 0
                       THEN result[j].winRate = 0 /\ result[j].totalRevenue = 0
                       ELSE /\ 2 * (won + lost) * result[j].winRate <= 2000 * won + (won + lost)
                            /\ 2 * (won + lost) * result[j].winRate > 2000 * won - (won + lost)

\* the scenario of the test: two won deals of 10000 and 20000, a lost and an
\* open one give winRate 66.7, beside a rep without any opportunity
C6_Witness ==
  /\ kpis # <<>>
  /\ \E j \in 1..Len(ValueOf(kpis)) :
       /\ ValueOf(kpis)[j].wonOpportunities = 2
       /\ ValueOf(kpis)[j].lostOpportunities = 1
       /\ ValueOf(kpis)[j].openOpportunities = 1
       /\ ValueOf(kpis)[j].totalRevenue = 30000
       /\ ValueOf(kpis)[j].winRate = 667
  /\ \E j \in 1..Len(ValueOf(kpis)) :
       /\ ValueOf(kpis)[j].totalOpportunities = 0
       /\ ValueOf(kpis)[j].winRate = 0

----------------------------------------------------------------------------
(* scoreLead and scoreAllLeads.  A text that the code searches is a sequence *)
(* of one-character strings.                                                 *)

SOURCE_WEIGHTS ==
  [referral |-> 95, demo_request |-> 90, inbound_call |-> 85, pricing_page |-> 80,
   contact_form |-> 75, webinar |-> 70, content_download |-> 60, website |-> 50,
   trade_show |-> 45, cold_outbound |-> 30, purchased_list |-> 20, unknown |-> 40]

ENGAGEMENT_WEIGHTS ==
  [meeting_scheduled |-> 25, meeting_completed |-> 30, email_replied |-> 15,
   call_connected |-> 20, proposal_viewed |-> 20, pricing_discussed |-> 25,
   demo_completed |-> 30, email_opened |-> 5, link_clicked |-> 10]

UpperCase == <<"A", "B", "C", "D", "E", "F", "G", "H", "I", "J", "K", "L", "M", "N", "O", "P", "Q", "R", "S", "T", "U", "V", "W", "X", "Y", "Z">>
LowerCase == <<"a", "b", "c", "d", "e", "f", "g", "h", "i", "j", "k", "l", "m", "n", "o", "p", "q", "r", "s", "t", "u", "v", "w", "x", "y", "z">>
Digits == {"0", "1", "2", "3", "4", "5", "6", "7", "8", "9"}

\* one character of String.prototype.toLowerCase
LowerChar(c) ==
  IF \E i \in 1..Len(UpperCase) : UpperCase[i] = c
  THEN LowerCase[CHOOSE i \in 1..Len(UpperCase) : UpperCase[i] = c]
  ELSE c

\* source.toLowerCase().replace(/[^a-z0-9]/g, '_')
Slug(text) ==
  [i \in 1..Len(text) |->
     LET c == LowerChar(text[i])
     IN IF (\E j \in 1..Len(LowerCase) : LowerCase[j] = c) \/ c \in Digits
        THEN c ELSE "_"]

\* String.prototype.includes
Includes(text, part) ==
  \E i \in 1..(Len(text) - Len(part) + 1) : SubSeq(text, i, i + Len(part) - 1) = part

\* the keywords of normalizeSource
Keyword ==
  [referral |-> <<"r", "e", "f", "e", "r", "r", "a", "l">>,
   refer |-> <<"r", "e", "f", "e", "r">>,
   demo |-> <<"d", "e", "m", "o">>,
   inbound |-> <<"i", "n", "b", "o", "u", "n", "d">>,
   phone |-> <<"p", "h", "o", "n", "e">>,
   pricing |-> <<"p", "r", "i", "c", "i", "n", "g">>,
   contact |-> <<"c", "o", "n", "t", "a", "c", "t">>,
   form |-> <<"f", "o", "r", "m">>,
   webinar |-> <<"w", "e", "b", "i", "n", "a", "r">>,
   event |-> <<"e", "v", "e", "n", "t">>,
   download |-> <<"d", "o", "w", "n", "l", "o", "a", "d">>,
   content |-> <<"c", "o", "n", "t", "e", "n", "t">>,
   ebook |-> <<"e", "b", "o", "o", "k">>,
   website |-> <<"w", "e", "b", "s", "i", "t", "e">>,
   web |-> <<"w", "e", "b">>,
   organic |-> <<"o", "r", "g", "a", "n", "i", "c">>,
   trade |-> <<"t", "r", "a", "d", "e">>,
   show |-> <<"s", "h", "o", "w">>,
   conference |-> <<"c", "o", "n", "f", "e", "r", "e", "n", "c", "e">>,
   cold |-> <<"c", "o", "l", "d">>,
   outbound |-> <<"o", "u", "t", "b", "o", "u", "n", "d">>,
   list |-> <<"l", "i", "s", "t">>,
   purchased |-> <<"p", "u", "r", "c", "h", "a", "s", "e", "d">>]

normalizeSource(source) ==
  IF ~IsDefined(source) \/ ValueOf(source) = <<>> THEN "unknown"
  ELSE LET s == Slug(ValueOf(source))
       IN IF Includes(s, Keyword.referral) \/ Includes(s, Keyword.refer) THEN "referral"
          ELSE IF Includes(s, Keyword.demo) THEN "demo_request"
          ELSE IF Includes(s, Keyword.inbound) \/ Includes(s, Keyword.phone) THEN "inbound_call"
          ELSE IF Includes(s, Keyword.pricing) THEN "pricing_page"
          ELSE IF Includes(s, Keyword.contact) \/ Includes(s, Keyword.form) THEN "contact_form"
          ELSE IF Includes(s, Keyword.webinar) \/ Includes(s, Keyword.event) THEN "webinar"
          ELSE IF Includes(s, Keyword.download) \/ Includes(s, Keyword.content) \/ Includes(s, Keyword.ebook)
               THEN "content_download"
          ELSE IF Includes(s, Keyword.website) \/ Includes(s, Keyword.web) \/ Includes(s, Keyword.organic)
               THEN "website"
          ELSE IF Includes(s, Keyword.trade) \/ Includes(s, Keyword.show) \/ Includes(s, Keyword.conference)
               THEN "trade_show"
          ELSE IF Includes(s, Keyword.cold) \/ Includes(s, Keyword.outbound) THEN "cold_outbound"
          ELSE IF Includes(s, Keyword.list) \/ Includes(s, Keyword.purchased) THEN "purchased_list"
          ELSE "unknown"

\* activity.type?.toLowerCase() || '' on the vocabulary of the inputs
LowerWord(field) ==
  IF ~IsDefined(field) THEN ""
  ELSE CASE ValueOf(field) = "Meeting" -> "meeting"
         [] ValueOf(field) = "EMAIL" -> "email"
         [] ValueOf(field) = "Completed" -> "completed"
         [] OTHER -> ValueOf(field)

\* the points one activity adds to engagementPoints
ActivityPoints(activity) ==
  LET type == LowerWord(activity.type)
      outcome == LowerWord(activity.outcome)
  IN IF type = "meeting" /\ outcome = "completed" THEN ENGAGEMENT_WEIGHTS.meeting_completed
     ELSE IF type = "meeting" THEN ENGAGEMENT_WEIGHTS.meeting_scheduled
     ELSE IF type = "call" /\ outcome = "connected" THEN ENGAGEMENT_WEIGHTS.call_connected
     ELSE IF type = "email" /\ outcome = "replied" THEN ENGAGEMENT_WEIGHTS.email_replied
     ELSE IF type = "demo" THEN ENGAGEMENT_WEIGHTS.demo_completed
     ELSE IF type = "email" THEN ENGAGEMENT_WEIGHTS.email_opened
     ELSE 0

RECURSIVE EngagementPoints(_)
EngagementPoints(activities) ==
  IF activities = <<>> THEN 0
  ELSE ActivityPoints(Head(activities)) + EngagementPoints(Tail(activities))

\* the engagement points left uncapped
Uncapped(points) == points

\* Math.min(30, engagementPoints)
CapEngagement(points) == IF points < 30 THEN points ELSE 30

\* the step function of recency
RecencyScore(daysSinceLastActivity) ==
  IF daysSinceLastActivity <= 1 THEN 25
  ELSE IF daysSinceLastActivity <= 3 THEN 22
  ELSE IF daysSinceLastActivity <= 7 THEN 18
  ELSE IF daysSinceLastActivity <= 14 THEN 14
  ELSE IF daysSinceLastActivity <= 30 THEN 10
  ELSE IF daysSinceLastActivity <= 60 THEN 5
  ELSE 2

\* activities.reduce((latest, a) => aDate > latest ? aDate : latest, new Date(0))
LastActivityTime(activities) ==
  MaxOf({0} \cup {activities[i].createdAt : i \in 1..Len(activities)})

FitPoints(lead) ==
  (IF IsDefined(lead.email) /\ Includes(ValueOf(lead.email), <<"@">>) THEN 4 ELSE 0)
  + (IF IsDefined(lead.phone) THEN 3 ELSE 0)
  + (IF IsDefined(lead.company) \/ IsDefined(lead.companyName) THEN 4 ELSE 0)
  + (IF IsDefined(lead.title) \/ IsDefined(lead.jobTitle) THEN 3 ELSE 0)
  + (IF IsDefined(lead.budget) \/ IsDefined(lead.estimatedValue) THEN 3 ELSE 0)
  + (IF IsDefined(lead.timeline) \/ IsDefined(lead.expectedCloseDate) THEN 3 ELSE 0)

scoreLead(lead, activities, nowTime) ==
  LET sourceKey == normalizeSource(lead.leadSource)
      source == RoundDiv(SOURCE_WEIGHTS[sourceKey] * 25, 100)
      engagement == CapEngagement(EngagementPoints(activities))
      daysSinceCreated == (nowTime - lead.createdAt) \div dayMs
      daysSinceLastActivity ==
        IF Len(activities) > 0
        THEN (nowTime - LastActivityTime(activities)) \div dayMs
        ELSE daysSinceCreated
      recency == RecencyScore(daysSinceLastActivity)
      fit == IF FitPoints(lead) < 20 THEN FitPoints(lead) ELSE 20
      total == source + engagement + recency + fit
  IN [leadId |-> lead.id,
      score |-> total,
      grade |-> IF total >= 80 THEN "A" ELSE IF total >= 65 THEN "B"
                ELSE IF total >= 50 THEN "C" ELSE "D",
      breakdown |-> [source |-> source, engagement |-> engagement,
                     recency |-> recency, fit |-> fit, total |-> total],
      signals |-> [source |-> sourceKey, daysSinceLastActivity |-> daysSinceLastActivity,
                   hasEmail |-> IsDefined(lead.email), hasPhone |-> IsDefined(lead.phone)],
      priority |-> IF total >= 70 THEN "HIGH" ELSE IF total >= 50 THEN "MEDIUM" ELSE "LOW"]

\* activityByLead.get(lead.id) || [], keyed by activity.contactId || activity.leadId
activityByLead(activities, leadId) ==
  SelectSeq(activities,
    LAMBDA a : (IF IsDefined(a.contactId) THEN a.contactId ELSE a.leadId) = Some(leadId))

\* the comparator of scored.sort
ScoreCompare(a, b) == b.score - a.score

RECURSIVE InsertScored(_, _)
InsertScored(sorted, x) ==
  IF sorted = <<>> THEN <<x>>
  ELSE IF ScoreCompare(x, Head(sorted)) < 0 THEN <<x>> \o sorted
  ELSE <<Head(sorted)>> \o InsertScored(Tail(sorted), x)

RECURSIVE SortScored(_)
SortScored(list) ==
  IF list = <<>> THEN <<>>
  ELSE InsertScored(SortScored(SubSeq(list, 1, Len(list) - 1)), list[Len(list)])

CountWhere(list, field, v) == Len(SelectSeq(list, LAMBDA r : r[field] = v))

scoreAllLeads(leads, activities, arg, wallClock) ==
  LET nowTime == NowOf(arg, wallClock)
      scoredLeads == SortScored(
        [i \in 1..Len(leads) |->
           scoreLead(leads[i], activityByLead(activities, leads[i].id), nowTime)])
  IN [leads |-> scoredLeads,
      summary |->
        [total |-> Len(scoredLeads),
         highPriority |-> CountWhere(scoredLeads, "priority", "HIGH"),
         mediumPriority |-> CountWhere(scoredLeads, "priority", "MEDIUM"),
         lowPriority |-> CountWhere(scoredLeads, "priority", "LOW"),
         avgScore |-> IF Len(scoredLeads) > 0
                      THEN RoundDiv(SumSeq(MapField(scoredLeads, "score")), Len(scoredLeads))
                      ELSE 0,
         gradeDistribution |->
           [A |-> CountWhere(scoredLeads, "grade", "A"),
            B |-> CountWhere(scoredLeads, "grade", "B"),
            C |-> CountWhere(scoredLeads, "grade", "C"),
            D |-> CountWhere(scoredLeads, "grade", "D")]]]

----------------------------------------------------------------------------
(* Inputs of the lead scorer *)

MaxLeads == 3
MaxLeadActs == 2

\* the texts of the inputs
Text ==
  [Referral |-> <<"R", "e", "f", "e", "r", "r", "a", "l">>,
   WebDemo |-> <<"W", "e", "b", " ", "D", "e", "m", "o">>,
   Facebook |-> <<"F", "a", "c", "e", "b", "o", "o", "k">>,
   mail |-> <<"a", "@", "b", ".", "c", "o">>,
   nomail |-> <<"a", "b", ".", "c", "o">>]

NoFit ==
  [email |-> Undefined, phone |-> Undefined, company |-> Undefined,
   companyName |-> Undefined, title |-> Undefined, jobTitle |-> Undefined,
   budget |-> Undefined, estimatedValue |-> Undefined, timeline |-> Undefined,
   expectedCloseDate |-> Undefined]

ScoreLeadShapes ==
  {[leadSource |-> Some(Text.Referral), createdAt |-> 2400,
    fit |-> [NoFit EXCEPT !.email = Some(Text.mail), !.phone = Some("555"),
                          !.company = Some("Acme"), !.title = Some("CTO"),
                          !.budget = Some(9000), !.timeline = Some("Q3")]],
   [leadSource |-> Some(Text.WebDemo), createdAt |-> 2400 - 5 * 24,
    fit |-> [NoFit EXCEPT !.email = Some(Text.nomail), !.phone = Some("555")]],
   [leadSource |-> Undefined, createdAt |-> 2400 - 100 * 24,
    fit |-> [NoFit EXCEPT !.email = Some(Text.mail)]],
   [leadSource |-> Some(Text.Facebook), createdAt |-> 2400 - 40 * 24,
    fit |-> [NoFit EXCEPT !.companyName = Some("Acme"), !.jobTitle = Some("CTO"),
                          !.estimatedValue = Some(9000),
                          !.expectedCloseDate = Some("Q3")]]}

ScoreActShapes ==
  {[contactId |-> Some(1), leadId |-> Undefined, type |-> Some("Meeting"),
    outcome |-> Some("Completed"), createdAt |-> 2400 - 24],
   [contactId |-> Some(1), leadId |-> Undefined, type |-> Some("demo"),
    outcome |-> Undefined, createdAt |-> 2400 - 40 * 24],
   [contactId |-> Undefined, leadId |-> Some(2), type |-> Some("EMAIL"),
    outcome |-> Some("replied"), createdAt |-> 2400 - 2 * 24],
   [contactId |-> Some(2), leadId |-> Undefined, type |-> Some("call"),
    outcome |-> Some("connected"), createdAt |-> 2400],
   [contactId |-> Some(3), leadId |-> Undefined, type |-> Undefined,
    outcome |-> Undefined, createdAt |-> 2400 - 3 * 24]}

MkScoreLeads(shapes) ==
  [i \in 1..Len(shapes) |->
     [id |-> i, status |-> "new", leadSource |-> shapes[i].leadSource,
      createdAt |-> shapes[i].createdAt, firstContactedAt |-> Undefined,
      assignedTo |-> Undefined,
      email |-> shapes[i].fit.email, phone |-> shapes[i].fit.phone,
      company |-> shapes[i].fit.company, companyName |-> shapes[i].fit.companyName,
      title |-> shapes[i].fit.title, jobTitle |-> shapes[i].fit.jobTitle,
      budget |-> shapes[i].fit.budget, estimatedValue |-> shapes[i].fit.estimatedValue,
      timeline |-> shapes[i].fit.timeline,
      expectedCloseDate |-> shapes[i].fit.expectedCloseDate]]

MkScoreActs(shapes) ==
  [i \in 1..Len(shapes) |->
     [id |-> i, contactId |-> shapes[i].contactId, leadId |-> shapes[i].leadId,
      performedBy |-> "rep_1", type |-> shapes[i].type, outcome |-> shapes[i].outcome,
      createdAt |-> shapes[i].createdAt]]

InitScore ==
  /\ \E l \in SeqsUpTo(ScoreLeadShapes, MaxLeads),
        a \in SeqsUpTo(ScoreActShapes, MaxLeadActs) :
       snapshot = [call |-> "scoreAllLeads",
                   opportunities |-> <<>>, activities |-> MkScoreActs(a),
                   leads |-> MkScoreLeads(l), reps |-> <<>>]
  /\ nowArg \in {Some(n) : n \in NowChoices}
  /\ clock \in NowChoices
  /\ runs = <<>>
  /\ kpis = <<>>
  /\ scored = <<>>
  /\ ranked = <<>>
  /\ rankedAll = <<>>
  /\ plan = <<>>
  /\ nextAction = <<>>
  /\ report = <<>>
  /\ wasted = <<>>
  /\ IntegrationIdle

ScoreAllLeads ==
  /\ scored = <<>>
  /\ scored' = Some(scoreAllLeads(snapshot.leads, snapshot.activities, nowArg, clock))
  /\ UNCHANGED <<integrationVars, snapshot, nowArg, clock, runs, kpis,
               ranked, rankedAll, plan, nextAction, report, wasted>>

NextScore == ScoreAllLeads

SpecScore == InitScore /\ [][NextScore]_vars

\* the position of a lead in the input list
InputIndex(leadId) ==
  CHOOSE i \in 1..Len(snapshot.leads) : snapshot.leads[i].id = leadId

\* C9: the batch scorer returns exactly one record per input lead; every
\* score lies in 0..100 and is the sum of the four sub-scores, each within
\* its budget: source 0..25, engagement 0..30, recency 0..25, fit 0..20
C9_ScoresBounded ==
  scored # <<>> =>
    LET out == ValueOf(scored).leads
    IN /\ Len(out) = Len(snapshot.leads)
       /\ \A i \in 1..Len(snapshot.leads) :
            Cardinality({j \in 1..Len(out) : out[j].leadId = snapshot.leads[i].id}) = 1
       /\ \A j \in 1..Len(out) :
            LET b == out[j].breakdown
            IN /\ out[j].score \in 0..100
               /\ out[j].score = b.source + b.engagement + b.recency + b.fit
               /\ b.source \in 0..25
               /\ b.engagement \in 0..30
               /\ b.recency \in 0..25
               /\ b.fit \in 0..20

\* several leads scored, one of them with more than 30 engagement points
\* before the cap and every sub-score at its highest: 24 + 30 + 25 + 20
C9_Witness ==
  /\ scored # <<>>
  /\ Len(ValueOf(scored).leads) >= 2
  /\ \E j \in 1..Len(ValueOf(scored).leads) :
       /\ ValueOf(scored).leads[j].score = 99
       /\ EngagementPoints(activityByLead(snapshot.activities,
                                          ValueOf(scored).leads[j].leadId)) > 30

\* the order of the result: scores descending, equal scores in input order
ScoredInOrder ==
  scored # <<>> =>
    LET out == ValueOf(scored).leads
    IN \A j, k \in 1..Len(out) : j < k =>
         /\ out[j].score >= out[k].score
         /\ out[j].score = out[k].score =>
              InputIndex(out[j].leadId) < InputIndex(out[k].leadId)

\* C10: the records are sorted by score descending, equal scores in the
\* order of their leads in the input, and the record at position j of the
\* result carries rank j
C10_SortedAndRanked ==
  /\ ScoredInOrder
  /\ scored # <<>> =>
       \A j \in 1..Len(ValueOf(scored).leads) :
         /\ "rank" \in DOMAIN ValueOf(scored).leads[j]
         /\ ValueOf(scored).leads[j].rank = j

\* C11: a lead without any activity gets an engagement sub-score greater
\* than 0 from scoreLead
C11_EngagementFloor ==
  scored # <<>> =>
    \A j \in 1..Len(ValueOf(scored).leads) :
      activityByLead(snapshot.activities, ValueOf(scored).leads[j].leadId) = <<>>
        => ValueOf(scored).leads[j].breakdown.engagement > 0

----------------------------------------------------------------------------
(* Deal prioritization engine (ai/dealPrioritization.js, weighted form).    *)
(* A numeric result that is NaN is the empty sequence, a number n is <<n>>. *)

WEIGHTS == [VALUE |-> 30, PROBABILITY |-> 25, VELOCITY |-> 20, DECAY |-> 15, EFFORT |-> 10]

scoreValue(value) ==
  IF ~IsDefined(value) \/ ValueOf(value) <= 0 THEN 10
  ELSE LET v == ValueOf(value)
       IN IF v >= 500000 THEN 100
          ELSE IF v >= 100000 THEN 85
          ELSE IF v >= 50000 THEN 70
          ELSE IF v >= 25000 THEN 60
          ELSE IF v >= 10000 THEN 50
          ELSE IF v >= 5000 THEN 40
          ELSE IF v >= 1000 THEN 30
          ELSE 20

\* the entries of stageScores in their order of insertion
stageScores ==
  <<[key |-> <<"c", "l", "o", "s", "e", "d">>, val |-> 100],
    [key |-> <<"c", "o", "n", "t", "r", "a", "c", "t">>, val |-> 90],
    [key |-> <<"n", "e", "g", "o", "t", "i", "a", "t", "i", "o", "n">>, val |-> 80],
    [key |-> <<"p", "r", "o", "p", "o", "s", "a", "l">>, val |-> 70],
    [key |-> <<"d", "e", "m", "o">>, val |-> 60],
    [key |-> <<"q", "u", "a", "l", "i", "f", "i", "e", "d">>, val |-> 50],
    [key |-> <<"d", "i", "s", "c", "o", "v", "e", "r", "y">>, val |-> 40],
    [key |-> <<"l", "e", "a", "d">>, val |-> 25],
    [key |-> <<"n", "e", "w">>, val |-> 20]>>

\* (deal.stage || '').toLowerCase()
LowerStage(deal) ==
  IF IsDefined(deal.stage)
  THEN [i \in 1..Len(ValueOf(deal.stage)) |-> LowerChar(ValueOf(deal.stage)[i])]
  ELSE <<>>

\* +10 from the larger threshold on, +5 from the smaller one on
Bonus(n, small, large) == IF n >= large THEN 10 ELSE IF n >= small THEN 5 ELSE 0

\* Math.min(score, 100)
Cap100(score) == IF score < 100 THEN score ELSE 100

scoreProbability(deal, activities) ==
  LET stage == LowerStage(deal)
      hits == {i \in 1..Len(stageScores) : Includes(stage, stageScores[i].key)}
      base == IF hits = {} THEN 50
              ELSE stageScores[CHOOSE i \in hits : \A j \in hits : i <= j].val
      uniqueContacts == Cardinality({activities[i].contactId : i \in 1..Len(activities)})
  IN Cap100(base + Bonus(Len(activities), 3, 5) + Bonus(uniqueContacts, 2, 3))

\* the age of the latest activity in hours; activities is not empty
SinceLastActivity(activities, nowTime) ==
  nowTime - MaxOf({activities[i].createdAt : i \in 1..Len(activities)})

scoreVelocity(deal, activities, nowTime) ==
  IF Len(activities) = 0 THEN 20
  ELSE LET age == SinceLastActivity(activities, nowTime)
           recency == IF age <= 1 * dayMs THEN 50
                      ELSE IF age <= 3 * dayMs THEN 40
                      ELSE IF age <= 7 * dayMs THEN 25
                      ELSE IF age <= 14 * dayMs THEN 10
                      ELSE 0
           recentActivities ==
             Cardinality({i \in 1..Len(activities) :
                            nowTime - activities[i].createdAt <= 14 * dayMs})
           frequency == IF recentActivities >= 5 THEN 30
                        ELSE IF recentActivities >= 3 THEN 20
                        ELSE IF recentActivities >= 1 THEN 10
                        ELSE 0
           hasProgressed == /\ IsDefined(deal.stageChangedAt)
                            /\ nowTime - ValueOf(deal.stageChangedAt) <= 14 * dayMs
       IN Cap100(recency + frequency + (IF hasProgressed THEN 20 ELSE 0))

scoreDecay(deal, activities, nowTime) ==
  LET age == IF Len(activities) > 0 THEN SinceLastActivity(activities, nowTime)
             ELSE 999 * dayMs
      idle == IF age > 30 * dayMs THEN 50
              ELSE IF age > 14 * dayMs THEN 35
              ELSE IF age > 7 * dayMs THEN 20
              ELSE IF age > 3 * dayMs THEN 10
              ELSE 0
      atRisk == IF GeNum(deal.value, 50000) /\ age > 7 * dayMs THEN 25 ELSE 0
      inStage == IF IsDefined(deal.updatedAt) THEN nowTime - ValueOf(deal.updatedAt)
                 ELSE 30 * dayMs
      stuck == IF inStage > 21 * dayMs THEN 25
               ELSE IF inStage > 14 * dayMs THEN 15
               ELSE 0
  IN Cap100(idle + atRisk + stuck)

scoreEffort(deal, activities) ==
  LET stage == LowerStage(deal)
      invested == IF Len(activities) >= 10 THEN 25
                  ELSE IF Len(activities) >= 5 THEN 15
                  ELSE 0
      late == IF Includes(stage, stageScores[2].key) \/ Includes(stage, stageScores[3].key)
              THEN 25
              ELSE IF Includes(stage, stageScores[4].key) THEN 15
              ELSE IF Includes(stage, stageScores[5].key) THEN 5
              ELSE 0
  IN Cap100(50 + invested + late)

\* getUrgency calling a deal IMMEDIATE from a decay of 50 on
ImmediateFromFifty(decayScore, velocityScore) ==
  IF decayScore >= 50 THEN "IMMEDIATE"
  ELSE IF decayScore >= 30 \/ velocityScore <= 20 THEN "THIS_WEEK"
  ELSE "SCHEDULED"

getUrgency(decayScore, velocityScore) ==
  IF decayScore >= 70 THEN "IMMEDIATE"
  ELSE IF decayScore >= 50 THEN "TODAY"
  ELSE IF decayScore >= 30 \/ velocityScore <= 20 THEN "THIS_WEEK"
  ELSE "SCHEDULED"

\* the velocity rule tested before the decay rule
AccelerateFirst(scores) ==
  IF scores.velocity <= 30 THEN "ACCELERATE"
  ELSE IF scores.decay >= 70 THEN "RESCUE"
  ELSE IF scores.probability >= 70 THEN "CLOSE"
  ELSE "ADVANCE"

\* the action of the recommendation
getRecommendation(scores) ==
  IF scores.decay >= 70 THEN "RESCUE"
  ELSE IF scores.velocity <= 30 THEN "ACCELERATE"
  ELSE IF scores.probability >= 70 THEN "CLOSE"
  ELSE "ADVANCE"

\* Math.round(deal.value * (scores.probability / 100)): NaN without a value
ExpectedValue(deal, probability) ==
  IF IsDefined(deal.value) THEN Some(RoundDiv(ValueOf(deal.value) * probability, 100))
  ELSE Undefined

\* the five component scores prioritizeDeal computes
Scores(deal, activities, nowTime) ==
  [value |-> scoreValue(deal.value),
   probability |-> scoreProbability(deal, activities),
   velocity |-> scoreVelocity(deal, activities, nowTime),
   decay |-> scoreDecay(deal, activities, nowTime),
   effort |-> scoreEffort(deal, activities)]

\* the record prioritizeDeal returns for the component scores
Prioritized(deal, scores, nowTime) ==
  LET weighted == scores.value * WEIGHTS.VALUE
                  + scores.probability * WEIGHTS.PROBABILITY
                  + scores.velocity * WEIGHTS.VELOCITY
                  + scores.decay * WEIGHTS.DECAY
                  + scores.effort * WEIGHTS.EFFORT
  IN [dealId |-> deal.id,
      value |-> deal.value,
      priorityScore |-> RoundDiv(weighted, 100),
      expectedValue |-> ExpectedValue(deal, scores.probability),
      scores |-> scores,
      urgency |-> getUrgency(scores.decay, scores.velocity),
      recommendation |-> [action |-> getRecommendation(scores)],
      scoredAt |-> nowTime]

prioritizeDeal(deal, activities, nowTime) ==
  Prioritized(deal, Scores(deal, activities, nowTime), nowTime)

\* contactToDeal.get(contactId): the last deal that carries the contact id
contactToDeal(deals, contactId) ==
  LET holders == {i \in 1..Len(deals) : deals[i].contactId = Some(contactId)}
  IN IF holders = {} THEN Undefined ELSE Some(deals[MaxOf(holders)].id)

\* the key under which groupActivitiesByDeal files an activity
DealKey(act, deals) ==
  IF IsDefined(act.dealId) THEN act.dealId
  ELSE IF IsDefined(act.contactId) THEN contactToDeal(deals, ValueOf(act.contactId))
  ELSE Undefined

\* groupActivitiesByDeal(activities, deals).get(key) || []
groupActivitiesByDeal(activities, deals, key) ==
  IF IsDefined(key)
  THEN SelectSeq(activities, LAMBDA act : DealKey(act, deals) = key)
  ELSE <<>>

\* activityByDeal.get(deal.id) || activityByDeal.get(deal.contactId) || []
DealActivities(activities, deals, deal) ==
  LET direct == groupActivitiesByDeal(activities, deals, Some(deal.id))
  IN IF direct # <<>> THEN direct
     ELSE groupActivitiesByDeal(activities, deals, deal.contactId)

\* (a, b) => b.priorityScore - a.priorityScore
RECURSIVE InsertPriority(_, _)
InsertPriority(sorted, p) ==
  IF sorted = <<>> THEN <<p>>
  ELSE IF Head(sorted).priorityScore < p.priorityScore THEN <<p>> \o sorted
  ELSE <<Head(sorted)>> \o InsertPriority(Tail(sorted), p)

RECURSIVE SortPriority(_)
SortPriority(s) ==
  IF s = <<>> THEN <<>>
  ELSE InsertPriority(SortPriority(SubSeq(s, 1, Len(s) - 1)), s[Len(s)])

\* a sum of numbers one of which may be NaN
RECURSIVE SumNum(_)
SumNum(s) ==
  IF s = <<>> THEN Some(0)
  ELSE LET rest == SumNum(Tail(s))
       IN IF IsDefined(Head(s)) /\ IsDefined(rest)
          THEN Some(ValueOf(Head(s)) + ValueOf(rest))
          ELSE Undefined

\* deals.filter(d => d.status === 'open')
OpenDeals(deals) == SelectSeq(deals, LAMBDA d : d.status = Some("open"))

\* prioritized.forEach((p, i) => p.rank = i + 1)
WithRank(sorted) ==
  [i \in 1..Len(sorted) |->
     [f \in DOMAIN sorted[i] \cup {"rank"} |-> IF f = "rank" THEN i ELSE sorted[i][f]]]

\* the summary of prioritizeDeals over the ranked deals
DealsSummary(prioritized) ==
  [totalDeals |-> Len(prioritized),
   totalPipelineValue |-> SumNum(MapField(prioritized, "value")),
   weightedPipelineValue |-> SumNum(MapField(prioritized, "expectedValue")),
   avgPriorityScore |->
     IF Len(prioritized) = 0 THEN 0
     ELSE RoundDiv(SumSeq(MapField(prioritized, "priorityScore")), Len(prioritized)),
   urgentCount |->
     Cardinality({i \in 1..Len(prioritized) :
                    prioritized[i].urgency \in {"IMMEDIATE", "TODAY"}})]

prioritizeDeals(deals, activities, arg, wallClock) ==
  LET nowTime == NowOf(arg, wallClock)
      openDeals == OpenDeals(deals)
      scoredDeals == [i \in 1..Len(openDeals) |->
                        prioritizeDeal(openDeals[i],
                                       DealActivities(activities, deals, openDeals[i]),
                                       nowTime)]
      prioritized == WithRank(SortPriority(scoredDeals))
  IN [deals |-> prioritized,
      summary |-> DealsSummary(prioritized),
      scoredAt |-> nowTime]

----------------------------------------------------------------------------
(* Deal prioritization engine (ai/dealPrioritization.js, stage form).       *)
(* Probabilities are kept in percent.                                       *)

\* DEFAULT_STAGE_PROBABILITY and the expectedDays table, by normalized stage;
\* days 0 stands for a stage the expectedDays table does not list
DEFAULT_STAGE_PROBABILITY ==
  <<[key |-> <<"l", "e", "a", "d">>, p |-> 10, days |-> 7],
    [key |-> <<"q", "u", "a", "l", "i", "f", "i", "e", "d">>, p |-> 20, days |-> 14],
    [key |-> <<"d", "i", "s", "c", "o", "v", "e", "r", "y">>, p |-> 30, days |-> 21],
    [key |-> <<"d", "e", "m", "o">>, p |-> 40, days |-> 30],
    [key |-> <<"p", "r", "o", "p", "o", "s", "a", "l">>, p |-> 50, days |-> 45],
    [key |-> <<"n", "e", "g", "o", "t", "i", "a", "t", "i", "o", "n">>, p |-> 70, days |-> 60],
    [key |-> <<"v", "e", "r", "b", "a", "l", "_", "c", "o", "m", "m", "i", "t">>, p |-> 85, days |-> 0],
    [key |-> <<"c", "l", "o", "s", "e", "d", "_", "w", "o", "n">>, p |-> 100, days |-> 0],
    [key |-> <<"c", "l", "o", "s", "e", "d", "_", "l", "o", "s", "t">>, p |-> 0, days |-> 0],
    [key |-> <<"w", "o", "n">>, p |-> 100, days |-> 0],
    [key |-> <<"l", "o", "s", "t">>, p |-> 0, days |-> 0]>>

\* deal.stage?.toLowerCase().replace(/[^a-z0-9]/g, '_') || 'lead'
StageSlug(deal) ==
  IF IsDefined(deal.stage) /\ ValueOf(deal.stage) # <<>> THEN Slug(ValueOf(deal.stage))
  ELSE DEFAULT_STAGE_PROBABILITY[1].key

\* table[stage][field] || fallback
StageLookup(stage, field, fallback) ==
  LET hits == {i \in 1..Len(DEFAULT_STAGE_PROBABILITY) :
                 DEFAULT_STAGE_PROBABILITY[i].key = stage}
  IN IF hits = {} THEN fallback
     ELSE LET v == DEFAULT_STAGE_PROBABILITY[CHOOSE i \in hits : TRUE][field]
          IN IF v = 0 THEN fallback ELSE v

\* prioritizeDeal of the stage form
prioritizeStagedDeal(deal, activities, nowTime) ==
  LET value == OrZero(deal.value)
      valueScore == IF value >= 100000 THEN 30
                    ELSE IF value >= 50000 THEN 25
                    ELSE IF value >= 25000 THEN 20
                    ELSE IF value >= 10000 THEN 15
                    ELSE IF value >= 5000 THEN 10
                    ELSE 5
      stage == StageSlug(deal)
      probability == StageLookup(stage, "p", 30)
      daysInPipeline == (nowTime - deal.createdAt) \div dayMs
      expectedDays == StageLookup(stage, "days", 30)
      elapsed == IF daysInPipeline > 1 THEN daysInPipeline ELSE 1
      velocity == IF 2 * expectedDays >= 3 * elapsed THEN 25
                  ELSE IF expectedDays >= elapsed THEN 20
                  ELSE IF 10 * expectedDays >= 7 * elapsed THEN 15
                  ELSE IF 2 * expectedDays >= elapsed THEN 10
                  ELSE 5
      daysSinceActivity ==
        IF Len(activities) > 0
        THEN (nowTime - LastActivityTime(activities)) \div dayMs
        ELSE daysInPipeline
      decay == IF daysSinceActivity <= 3 THEN 0
               ELSE IF daysSinceActivity <= 7 THEN 5
               ELSE IF daysSinceActivity <= 14 THEN 10
               ELSE IF daysSinceActivity <= 30 THEN 15
               ELSE 20
      sum == valueScore + RoundDiv(probability * 25, 100) + velocity - decay
      total == IF sum > 0 THEN sum ELSE 0
      isHighValue == value >= 50000
      isStalled == daysSinceActivity > 14
  IN [dealId |-> deal.id,
      score |-> total,
      priority |-> IF total >= 70 THEN "CRITICAL"
                   ELSE IF total >= 55 THEN "HIGH"
                   ELSE IF total >= 40 THEN "MEDIUM"
                   ELSE "LOW",
      metrics |-> [value |-> value, probability |-> probability,
                   daysInPipeline |-> daysInPipeline,
                   daysSinceActivity |-> daysSinceActivity,
                   expectedValue |-> RoundDiv(value * probability, 100),
                   activityCount |-> Len(activities)],
      recommendedAction |->
        IF isHighValue /\ daysSinceActivity > 7 THEN "high_value_no_activity"
        ELSE IF isHighValue /\ daysInPipeline > 60 THEN "high_value_stalled"
        ELSE IF probability >= 70 THEN "closing_soon"
        ELSE IF probability <= 30 /\ isHighValue THEN "early_stage_high_value"
        ELSE IF isStalled THEN "medium_value_stuck"
        ELSE IF Len(activities) < 3 THEN "low_engagement"
        ELSE "default",
      flags |-> [isHighValue |-> isHighValue, isStalled |-> isStalled,
                 isClosing |-> probability >= 70,
                 needsAttention |-> isHighValue /\ isStalled]]

\* the filter of prioritizeAllDeals: status 'open', or no status and a stage
\* that is none of won, lost, closed_won, closed_lost
IsOpenOrStaged(d) ==
  \/ d.status = Some("open")
  \/ /\ ~IsDefined(d.status)
     /\ IsDefined(d.stage) /\ ValueOf(d.stage) # <<>>
     /\ LowerStage(d) \notin {DEFAULT_STAGE_PROBABILITY[i].key : i \in 8..11}

\* activity.contactId || activity.dealId || activity.opportunityId
ActivityKey(act) ==
  IF IsDefined(act.contactId) THEN act.contactId
  ELSE IF IsDefined(act.dealId) THEN act.dealId
  ELSE act.opportunityId

\* activityByDeal.get(deal.contactId) || activityByDeal.get(deal.id) || []
StagedDealActivities(activities, deal) ==
  LET byContact == SelectSeq(activities, LAMBDA act : ActivityKey(act) = deal.contactId)
  IN IF byContact # <<>> THEN byContact
     ELSE SelectSeq(activities, LAMBDA act : ActivityKey(act) = Some(deal.id))

\* (a, b) => b.score - a.score
RECURSIVE InsertStaged(_, _)
InsertStaged(sorted, p) ==
  IF sorted = <<>> THEN <<p>>
  ELSE IF Head(sorted).score < p.score THEN <<p>> \o sorted
  ELSE <<Head(sorted)>> \o InsertStaged(Tail(sorted), p)

RECURSIVE SortStaged(_)
SortStaged(s) ==
  IF s = <<>> THEN <<>>
  ELSE InsertStaged(SortStaged(SubSeq(s, 1, Len(s) - 1)), s[Len(s)])

prioritizeAllDeals(deals, activities, arg, wallClock) ==
  LET nowTime == NowOf(arg, wallClock)
      openDeals == SelectSeq(deals, IsOpenOrStaged)
      prioritized ==
        SortStaged([i \in 1..Len(openDeals) |->
                      prioritizeStagedDeal(openDeals[i],
                                           StagedDealActivities(activities, openDeals[i]),
                                           nowTime)])
      metrics == MapField(prioritized, "metrics")
  IN [deals |-> prioritized,
      summary |->
        [totalDeals |-> Len(prioritized),
         totalValue |-> SumSeq(MapField(metrics, "value")),
         totalExpectedValue |-> SumSeq(MapField(metrics, "expectedValue")),
         priorityDistribution |->
           [critical |-> CountWhere(prioritized, "priority", "CRITICAL"),
            high |-> CountWhere(prioritized, "priority", "HIGH"),
            medium |-> CountWhere(prioritized, "priority", "MEDIUM"),
            low |-> CountWhere(prioritized, "priority", "LOW")],
         needsAttention |->
           Cardinality({i \in 1..Len(prioritized) : prioritized[i].flags.needsAttention}),
         avgScore |->
           IF Len(prioritized) > 0
           THEN RoundDiv(SumSeq(MapField(prioritized, "score")), Len(prioritized))
           ELSE 0]]

----------------------------------------------------------------------------
(* Inputs of the deal prioritizers *)

MaxDeals == 2
MaxDealActs == 2

StageText ==
  [Negotiation |-> <<"N", "e", "g", "o", "t", "i", "a", "t", "i", "o", "n">>,
   Proposal |-> <<"P", "r", "o", "p", "o", "s", "a", "l">>,
   ClosedWon |-> <<"C", "l", "o", "s", "e", "d", " ", "W", "o", "n">>,
   Demo |-> <<"D", "e", "m", "o">>,
   Contract |-> <<"C", "o", "n", "t", "r", "a", "c", "t">>,
   Discovery |-> <<"D", "i", "s", "c", "o", "v", "e", "r", "y">>,
   Lost |-> <<"L", "o", "s", "t">>]

DealShapes ==
  {[status |-> Some("open"), stage |-> Some(StageText.Negotiation), value |-> Some(60000),
    contactId |-> Some(1), createdAt |-> 2400 - 90 * 24,
    updatedAt |-> Some(2400 - 30 * 24), stageChangedAt |-> Undefined],
   [status |-> Some("open"), stage |-> Some(StageText.Proposal), value |-> Undefined,
    contactId |-> Some(2), createdAt |-> 2400 - 10 * 24,
    updatedAt |-> Some(2400 - 2 * 24), stageChangedAt |-> Some(2400 - 2 * 24)],
   [status |-> Some("won"), stage |-> Some(StageText.ClosedWon), value |-> Some(5000),
    contactId |-> Some(1), createdAt |-> 2400 - 20 * 24,
    updatedAt |-> Some(2400 - 24), stageChangedAt |-> Some(2400 - 24)],
   [status |-> Undefined, stage |-> Some(StageText.Demo), value |-> Some(20000),
    contactId |-> Some(3), createdAt |-> 2400 - 5 * 24,
    updatedAt |-> Undefined, stageChangedAt |-> Undefined],
   [status |-> Some("open"), stage |-> Some(StageText.Contract), value |-> Some(8000),
    contactId |-> Some(1), createdAt |-> 2400 - 40 * 24,
    updatedAt |-> Some(2400 - 24), stageChangedAt |-> Some(2400 - 24)],
   [status |-> Some("abandoned"), stage |-> Undefined, value |-> Some(1000),
    contactId |-> Undefined, createdAt |-> 2400 - 70 * 24,
    updatedAt |-> Undefined, stageChangedAt |-> Undefined],
   [status |-> Some("open"), stage |-> Some(StageText.Discovery), value |-> Some(500),
    contactId |-> Some(1), createdAt |-> 2400 - 3 * 24,
    updatedAt |-> Some(2400 - 24), stageChangedAt |-> Undefined],
   [status |-> Some("lost"), stage |-> Some(StageText.Lost), value |-> Some(0),
    contactId |-> Some(2), createdAt |-> 2400 - 50 * 24,
    updatedAt |-> Some(2400 - 45 * 24), stageChangedAt |-> Undefined]}

DealActShapes ==
  {[dealId |-> Some(1), contactId |-> Some(7), createdAt |-> 2400 - 12],
   [dealId |-> Some(1), contactId |-> Some(8), createdAt |-> 2400 - 2 * 24],
   [dealId |-> Undefined, contactId |-> Some(1), createdAt |-> 2400 - 40 * 24]}

MkDeals(shapes) ==
  [i \in 1..Len(shapes) |->
     [id |-> i, contactId |-> shapes[i].contactId, status |-> shapes[i].status,
      stage |-> shapes[i].stage, value |-> shapes[i].value,
      createdAt |-> shapes[i].createdAt, updatedAt |-> shapes[i].updatedAt,
      stageChangedAt |-> shapes[i].stageChangedAt]]

MkDealActs(shapes) ==
  [i \in 1..Len(shapes) |->
     [id |-> i, dealId |-> shapes[i].dealId, contactId |-> shapes[i].contactId,
      opportunityId |-> Undefined, createdAt |-> shapes[i].createdAt]]

InitDeals ==
  /\ \E d \in SeqsUpTo(DealShapes, MaxDeals),
        a \in SeqsUpTo(DealActShapes, MaxDealActs) :
       snapshot = [call |-> "prioritizeDeals",
                   opportunities |-> MkDeals(d), activities |-> MkDealActs(a),
                   leads |-> <<>>, reps |-> <<>>]
  /\ nowArg \in {Some(n) : n \in NowChoices}
  /\ clock \in NowChoices
  /\ runs = <<>>
  /\ kpis = <<>>
  /\ scored = <<>>
  /\ ranked = <<>>
  /\ rankedAll = <<>>
  /\ plan = <<>>
  /\ nextAction = <<>>
  /\ report = <<>>
  /\ wasted = <<>>
  /\ IntegrationIdle

\* the rank written to the input deals as well
RankOnInput ==
  /\ ranked = <<>>
  /\ ranked' = Some(prioritizeDeals(snapshot.opportunities, snapshot.activities,
                                    nowArg, clock))
  /\ snapshot' =
       [snapshot EXCEPT !.opportunities =
          [i \in 1..Len(@) |->
             [f \in DOMAIN @[i] \cup {"rank"} |-> IF f = "rank" THEN i ELSE @[i][f]]]]
  /\ UNCHANGED <<integrationVars, nowArg, clock, runs, kpis, scored,
                 rankedAll, plan, nextAction, report, wasted>>

PrioritizeDeals ==
  /\ ranked = <<>>
  /\ ranked' = Some(prioritizeDeals(snapshot.opportunities, snapshot.activities,
                                    nowArg, clock))
  /\ UNCHANGED <<integrationVars, snapshot, nowArg, clock, runs, kpis, scored,
                 rankedAll, plan, report, wasted, nextAction>>

PrioritizeAllDeals ==
  /\ rankedAll = <<>>
  /\ rankedAll' = Some(prioritizeAllDeals(snapshot.opportunities, snapshot.activities,
                                          nowArg, clock))
  /\ UNCHANGED <<integrationVars, snapshot, nowArg, clock, runs, kpis, scored,
                 ranked, plan, report, wasted, nextAction>>

NextDeals == PrioritizeDeals \/ PrioritizeAllDeals

SpecDeals == InitDeals /\ [][NextDeals]_vars

\* the input deal a record of a ranked list was computed from
DealOf(record) == snapshot.opportunities[record.dealId]

\* C12: every record of the ranked list of either batch prioritizer belongs
\* to an input deal whose status is exactly 'open'; a deal that is won, lost,
\* abandoned or without a status is not ranked, whatever its stage
C12_OnlyOpenRanked ==
  /\ ranked # <<>> =>
       \A j \in 1..Len(ValueOf(ranked).deals) :
         DealOf(ValueOf(ranked).deals[j]).status = Some("open")
  /\ rankedAll # <<>> =>
       \A j \in 1..Len(ValueOf(rankedAll).deals) :
         DealOf(ValueOf(rankedAll).deals[j]).status = Some("open")

\* C13: every ranked deal has a numeric expectedValue with
\* 0 <= expectedValue <= value, a missing value counting as 0, and the
\* probability applied to the value is at most 100 percent
C13_ExpectedValueBounded ==
  ranked # <<>> =>
    \A j \in 1..Len(ValueOf(ranked).deals) :
      LET p == ValueOf(ranked).deals[j]
      IN /\ p.scores.probability <= 100
         /\ IsDefined(p.expectedValue)
         /\ ValueOf(p.expectedValue) >= 0
         /\ ValueOf(p.expectedValue) <= OrZero(DealOf(p).value)

\* C14: the recommendation of every ranked deal is RESCUE when decay >= 70;
\* ACCELERATE when decay < 70 and velocity <= 30; CLOSE when decay < 70,
\* velocity > 30 and probability >= 70; ADVANCE in every other case
C14_RecommendationOrder ==
  ranked # <<>> =>
    \A j \in 1..Len(ValueOf(ranked).deals) :
      LET s == ValueOf(ranked).deals[j].scores
          action == ValueOf(ranked).deals[j].recommendation.action
      IN /\ s.decay >= 70 => action = "RESCUE"
         /\ (s.decay < 70 /\ s.velocity <= 30) => action = "ACCELERATE"
         /\ (s.decay < 70 /\ s.velocity > 30 /\ s.probability >= 70) => action = "CLOSE"
         /\ (s.decay < 70 /\ s.velocity > 30 /\ s.probability < 70) => action = "ADVANCE"

\* a ranked deal on which the rescue, accelerate and close conditions all
\* hold, next to a deal that is ready to close
C14_Witness ==
  /\ ranked # <<>>
  /\ \E j, k \in 1..Len(ValueOf(ranked).deals) :
       /\ ValueOf(ranked).deals[j].scores.decay >= 70
       /\ ValueOf(ranked).deals[j].scores.velocity <= 30
       /\ ValueOf(ranked).deals[j].scores.probability >= 70
       /\ ValueOf(ranked).deals[j].recommendation.action = "RESCUE"
       /\ ValueOf(ranked).deals[k].recommendation.action = "CLOSE"

----------------------------------------------------------------------------
(* Insight engine: synthesized insights and the health score *)

synthesizeInsights(results) ==
  (IF results.hot > 0 THEN <<[type |-> "OPPORTUNITY"]>> ELSE <<>>)
  \o (IF 10 * results.dead > 3 * results.total THEN <<[type |-> "WARNING"]>> ELSE <<>>)
  \o (IF results.stuckDeals > 0 THEN <<[type |-> "WARNING"]>> ELSE <<>>)
  \o (IF results.criticalCount > 0 THEN <<[type |-> "CRITICAL"]>> ELSE <<>>)
  \o (IF results.immediateCount > 5 THEN <<[type |-> "CAPACITY"]>> ELSE <<>>)

\* the score returned as it is after the loop
NoFloor(score) == score

\* Math.max(score, 0)
FloorAtZero(score) == IF score > 0 THEN score ELSE 0

\* the loop of calculateHealthScore, from the given score on
RECURSIVE Deduct(_, _)
Deduct(score, insights) ==
  IF insights = <<>> THEN score
  ELSE Deduct(IF Head(insights).type = "CRITICAL" THEN score - 25
              ELSE IF Head(insights).type = "WARNING" THEN score - 10
              ELSE IF Head(insights).type = "CAPACITY" THEN score - 5
              ELSE score,
              Tail(insights))

calculateHealthScore(insights) == FloorAtZero(Deduct(100, insights))

MaxInsights == 5

InsightTypes == {"OPPORTUNITY", "WARNING", "CRITICAL", "CAPACITY"}

\* the figures synthesizeInsights reads from the four results
ResultChoices ==
  [hot : {0, 2}, dead : {0, 1, 2}, total : {4}, stuckDeals : {0, 1},
   criticalCount : {0, 1}, immediateCount : {5, 6}]

InitHealth ==
  /\ \E r \in ResultChoices, t \in SeqsUpTo(InsightTypes, MaxInsights) :
       /\ t = <<>> \/ r = [hot |-> 0, dead |-> 0, total |-> 4, stuckDeals |-> 0,
                           criticalCount |-> 0, immediateCount |-> 5]
       /\ snapshot = [results |-> r, insights |-> [i \in 1..Len(t) |-> [type |-> t[i]]]]
  /\ nowArg \in {Some(n) : n \in NowChoices}
  /\ clock \in NowChoices
  /\ runs = <<>>
  /\ kpis = <<>>
  /\ scored = <<>>
  /\ ranked = <<>>
  /\ rankedAll = <<>>
  /\ plan = <<>>
  /\ nextAction = <<>>
  /\ report = <<>>
  /\ wasted = <<>>
  /\ IntegrationIdle

\* the insights and the health score of analyze
Analyze ==
  /\ report = <<>>
  /\ LET insights == synthesizeInsights(snapshot.results)
     IN report' = Some([insights |-> insights,
                        healthScore |-> calculateHealthScore(insights)])
  /\ UNCHANGED <<integrationVars, snapshot, nowArg, clock, runs, kpis, scored,
                 ranked, rankedAll, plan, wasted, nextAction>>

\* calculateHealthScore on a list of insights of any make-up
CalculateHealthScore ==
  /\ report = <<>>
  /\ report' = Some([insights |-> snapshot.insights,
                     healthScore |-> calculateHealthScore(snapshot.insights)])
  /\ UNCHANGED <<integrationVars, snapshot, nowArg, clock, runs, kpis, scored,
                 ranked, rankedAll, plan, wasted, nextAction>>

NextHealth == Analyze \/ CalculateHealthScore

SpecHealth == InitHealth /\ [][NextHealth]_vars

\* the total deduction of a list of insights
Deduction(insights) ==
  25 * CountWhere(insights, "type", "CRITICAL")
  + 10 * CountWhere(insights, "type", "WARNING")
  + 5 * CountWhere(insights, "type", "CAPACITY")

\* C15: the health score is 100 less 25 per CRITICAL, 10 per WARNING and 5
\* per CAPACITY insight, or 0 when that is negative, and so within 0..100
C15_HealthScore ==
  report # <<>> =>
    LET d == Deduction(ValueOf(report).insights)
    IN /\ ValueOf(report).healthScore = (IF d > 100 THEN 0 ELSE 100 - d)
       /\ ValueOf(report).healthScore \in 0..100

\* a list whose total deduction exceeds 100, scored 0
C15_Witness ==
  /\ report # <<>>
  /\ Deduction(ValueOf(report).insights) > 100
  /\ ValueOf(report).healthScore = 0

----------------------------------------------------------------------------
(* Action recommendation engine (ai/actionRecommendations.js) *)

\* the fixed fields of the six kinds of action, in the order of the code
ActionKinds ==
  <<[type |-> "CALL_HOT_LEAD", prefix |-> "call_hot", priority |-> 100,
     urgency |-> "IMMEDIATE", timeToExecute |-> "5 min", limit |-> 3],
    [type |-> "RESCUE_DEAL", prefix |-> "rescue", priority |-> 95,
     urgency |-> "IMMEDIATE", timeToExecute |-> "15 min", limit |-> 3],
    [type |-> "CLOSE_DEAL", prefix |-> "close", priority |-> 90,
     urgency |-> "TODAY", timeToExecute |-> "30 min", limit |-> 3],
    [type |-> "FIX_LEAK", prefix |-> "fix", priority |-> 85,
     urgency |-> "TODAY", timeToExecute |-> "1 hour", limit |-> 2],
    [type |-> "FOLLOW_UP", prefix |-> "followup", priority |-> 70,
     urgency |-> "TODAY", timeToExecute |-> "10 min", limit |-> 5],
    [type |-> "WORK_LEAD", prefix |-> "work_warm", priority |-> 50,
     urgency |-> "THIS_WEEK", timeToExecute |-> "10 min", limit |-> 3]>>

\* list.slice(0, n)
Slice(list, n) == SubSeq(list, 1, IF Len(list) < n THEN Len(list) ELSE n)

\* the records one category takes its actions from
Sources(kind, data) ==
  Slice(CASE kind = 1 -> SelectSeq(data.leadScores, LAMBDA l : l.tier = "HOT")
          [] kind = 2 -> SelectSeq(data.dealPriorities, LAMBDA d : d.urgency = "IMMEDIATE")
          [] kind = 3 -> SelectSeq(data.dealPriorities,
                                   LAMBDA d : /\ d.scores.probability >= 70
                                              /\ d.recommendation.action = "CLOSE")
          [] kind = 4 -> SelectSeq(data.leaks, LAMBDA l : l.severity = "CRITICAL")
          [] kind = 5 -> SelectSeq(data.dealPriorities,
                                   LAMBDA d : d.scores.decay >= 30 /\ d.scores.decay < 70)
          [] kind = 6 -> SelectSeq(data.leadScores, LAMBDA l : l.tier = "WARM"),
        ActionKinds[kind].limit)

\* the action pushed for one source record
ActionFor(kind, record) ==
  LET relatedId == CASE kind \in {1, 6} -> record.leadId
                     [] kind \in {2, 3, 5} -> record.dealId
                     [] kind = 4 -> record.id
  IN [id |-> <<ActionKinds[kind].prefix, relatedId>>,
      type |-> ActionKinds[kind].type,
      priority |-> ActionKinds[kind].priority,
      urgency |-> ActionKinds[kind].urgency,
      estimatedRevenue |-> CASE kind = 1 -> Some(5000)
                             [] kind \in {2, 3} -> record.value
                             [] kind = 4 -> Some(record.estimatedRevenue)
                             [] kind = 5 -> record.expectedValue
                             [] kind = 6 -> Some(3000),
      timeToExecute |-> ActionKinds[kind].timeToExecute,
      relatedId |-> relatedId]

\* the actions in the order they are pushed
RECURSIVE Pushed(_, _)
Pushed(kind, data) ==
  IF kind > Len(ActionKinds) THEN <<>>
  ELSE LET from == Sources(kind, data)
       IN [i \in 1..Len(from) |-> ActionFor(kind, from[i])] \o Pushed(kind + 1, data)

\* deal.value.toLocaleString() on a rescued or followed-up deal without value
ActionsThrow(data) ==
  \E kind \in {2, 5} : \E i \in 1..Len(Sources(kind, data)) :
    ~IsDefined(Sources(kind, data)[i].value)

\* a comparator that orders the actions by ascending priority
AscendingPriority(a, b) == a.priority < b.priority

\* (a, b) => b.priority - a.priority is negative: a goes before b
ActionCompare(a, b) == a.priority > b.priority

RECURSIVE InsertAction(_, _)
InsertAction(sorted, a) ==
  IF sorted = <<>> THEN <<a>>
  ELSE IF ActionCompare(a, Head(sorted)) THEN <<a>> \o sorted
  ELSE <<Head(sorted)>> \o InsertAction(Tail(sorted), a)

RECURSIVE SortActions(_)
SortActions(s) ==
  IF s = <<>> THEN <<>>
  ELSE InsertAction(SortActions(SubSeq(s, 1, Len(s) - 1)), s[Len(s)])

\* parseInt(time), times 60 when the text includes 'hour'
MinutesOf(action) ==
  CASE action.timeToExecute = "5 min" -> 5
    [] action.timeToExecute = "10 min" -> 10
    [] action.timeToExecute = "15 min" -> 15
    [] action.timeToExecute = "30 min" -> 30
    [] action.timeToExecute = "1 hour" -> 60

calculateTotalTime(actions) ==
  LET minutes == SumSeq([i \in 1..Len(actions) |-> MinutesOf(actions[i])])
  IN IF minutes >= 60 THEN <<minutes \div 60, "h", minutes % 60, "m">>
     ELSE <<minutes, "min">>

\* actions.filter(a => a.urgency === urgency)
WithUrgency(actions, urgency) == SelectSeq(actions, LAMBDA a : a.urgency = urgency)

\* the outcome of one call: the returned object (nextBestAction undefined
\* stands for null), or the TypeError thrown while the actions are built
generateActions(data, arg, wallClock) ==
  IF ActionsThrow(data) THEN [threw |-> TRUE]
  ELSE LET actions == SortActions(Pushed(1, data))
       IN [threw |-> FALSE,
           actions |-> actions,
           nextBestAction |-> IF actions # <<>> THEN Some(actions[1]) ELSE Undefined,
           summary |->
             [totalActions |-> Len(actions),
              immediateCount |-> Len(WithUrgency(actions, "IMMEDIATE")),
              todayCount |-> Len(WithUrgency(actions, "TODAY")),
              totalPotentialRevenue |-> SumNum(MapField(actions, "estimatedRevenue")),
              estimatedTimeToComplete |-> calculateTotalTime(actions)],
           byUrgency |->
             [immediate |-> WithUrgency(actions, "IMMEDIATE"),
              today |-> WithUrgency(actions, "TODAY"),
              thisWeek |-> WithUrgency(actions, "THIS_WEEK"),
              scheduled |-> WithUrgency(actions, "SCHEDULED")],
           generatedAt |-> NowOf(arg, wallClock)]

\* the outcome of getNextBestAction of this module
getNextBestAction(data, arg, wallClock) ==
  LET result == generateActions(data, arg, wallClock)
  IN IF result.threw THEN [threw |-> TRUE]
     ELSE IF ~IsDefined(result.nextBestAction)
     THEN [threw |-> FALSE, action |-> Undefined,
           message |-> "No immediate actions required. Pipeline is healthy."]
     ELSE [threw |-> FALSE, action |-> result.nextBestAction,
           message |-> "title - description"]

----------------------------------------------------------------------------
(* Inputs of generateActions *)

MaxPlanLeads == 2
MaxPlanDeals == 2
MaxPlanLeaks == 2

\* records of the shape prioritizeDeals returns
PriorityShapes ==
  {[urgency |-> "IMMEDIATE", value |-> Some(60000), expectedValue |-> Some(48000),
    scores |-> [probability |-> 80, velocity |-> 20, decay |-> 100],
    recommendation |-> [action |-> "RESCUE"]],
   [urgency |-> "SCHEDULED", value |-> Some(8000), expectedValue |-> Some(8000),
    scores |-> [probability |-> 100, velocity |-> 80, decay |-> 0],
    recommendation |-> [action |-> "CLOSE"]],
   [urgency |-> "TODAY", value |-> Undefined, expectedValue |-> Undefined,
    scores |-> [probability |-> 70, velocity |-> 20, decay |-> 50],
    recommendation |-> [action |-> "ACCELERATE"]],
   [urgency |-> "THIS_WEEK", value |-> Some(500), expectedValue |-> Some(350),
    scores |-> [probability |-> 70, velocity |-> 55, decay |-> 35],
    recommendation |-> [action |-> "CLOSE"]]}

PlanData(tiers, priorities, severities) ==
  [call |-> "generateActions",
   leadScores |-> [i \in 1..Len(tiers) |->
                     [leadId |-> i, tier |-> tiers[i], score |-> 50]],
   dealPriorities |-> [i \in 1..Len(priorities) |->
                         [dealId |-> i, urgency |-> priorities[i].urgency,
                          value |-> priorities[i].value,
                          expectedValue |-> priorities[i].expectedValue,
                          scores |-> priorities[i].scores,
                          recommendation |-> priorities[i].recommendation]],
   leaks |-> [i \in 1..Len(severities) |->
                [id |-> i, severity |-> severities[i], estimatedRevenue |-> 1000 * i]]]

InitPlan ==
  /\ \E tiers \in SeqsUpTo({"HOT", "WARM", "COLD"}, MaxPlanLeads),
        priorities \in SeqsUpTo(PriorityShapes, MaxPlanDeals),
        severities \in SeqsUpTo({"CRITICAL", "HIGH"}, MaxPlanLeaks) :
       snapshot = PlanData(tiers, priorities, severities)
  /\ nowArg \in {Some(n) : n \in NowChoices}
  /\ clock \in NowChoices
  /\ runs = <<>>
  /\ kpis = <<>>
  /\ scored = <<>>
  /\ ranked = <<>>
  /\ rankedAll = <<>>
  /\ plan = <<>>
  /\ nextAction = <<>>
  /\ report = <<>>
  /\ wasted = <<>>
  /\ IntegrationIdle

GenerateActions ==
  /\ plan = <<>>
  /\ plan' = Some(generateActions(snapshot, nowArg, clock))
  /\ UNCHANGED <<integrationVars, snapshot, nowArg, clock, runs, kpis, scored,
                 ranked, rankedAll, nextAction, report, wasted>>

GetNextBestAction ==
  /\ nextAction = <<>>
  /\ nextAction' = Some(getNextBestAction(snapshot, nowArg, clock))
  /\ UNCHANGED <<integrationVars, snapshot, nowArg, clock, runs, kpis, scored,
                 ranked, rankedAll, plan, report, wasted>>

NextPlan == GenerateActions \/ GetNextBestAction

SpecPlan == InitPlan /\ [][NextPlan]_vars

\* generateActions has returned
Planned == plan # <<>> /\ ~ValueOf(plan).threw

\* the categories from the most to the least urgent
CategoryRank(type) == CHOOSE k \in 1..Len(ActionKinds) : ActionKinds[k].type = type

\* the position in its input list of the record an action was made from
SourceIndex(action) == action.relatedId

\* C16: in the returned list the priorities never increase, so the actions
\* come by category CALL_HOT_LEAD, RESCUE_DEAL, CLOSE_DEAL, FIX_LEAK,
\* FOLLOW_UP, WORK_LEAD, and the actions of one category stand in the order
\* of their source records
C16_ActionsOrdered ==
  Planned =>
    LET actions == ValueOf(plan).actions
    IN \A j, k \in 1..Len(actions) : j < k =>
         /\ actions[j].priority >= actions[k].priority
         /\ CategoryRank(actions[j].type) <= CategoryRank(actions[k].type)
         /\ actions[j].type = actions[k].type =>
              SourceIndex(actions[j]) < SourceIndex(actions[k])

\* a returned list with actions of all six categories, two of one category
C16_Witness ==
  /\ Planned
  /\ Cardinality({ValueOf(plan).actions[j].type :
                    j \in 1..Len(ValueOf(plan).actions)}) = 6
  /\ \E j, k \in 1..Len(ValueOf(plan).actions) :
       j < k /\ ValueOf(plan).actions[j].type = ValueOf(plan).actions[k].type

\* the urgency buckets of a returned plan, one after the other
Buckets(result) ==
  result.byUrgency.immediate \o result.byUrgency.today
  \o result.byUrgency.thisWeek \o result.byUrgency.scheduled

\* the buckets hold the actions of their urgency in the order of the list,
\* and every action of the list is in exactly one bucket
BucketsPartition ==
  Planned =>
    LET result == ValueOf(plan)
        actions == result.actions
    IN /\ result.byUrgency.immediate = SelectSeq(actions, LAMBDA a : a.urgency = "IMMEDIATE")
       /\ result.byUrgency.today = SelectSeq(actions, LAMBDA a : a.urgency = "TODAY")
       /\ result.byUrgency.thisWeek = SelectSeq(actions, LAMBDA a : a.urgency = "THIS_WEEK")
       /\ result.byUrgency.scheduled = SelectSeq(actions, LAMBDA a : a.urgency = "SCHEDULED")
       /\ Len(Buckets(result)) = Len(actions)
       /\ \A j \in 1..Len(actions) :
            Cardinality({k \in 1..Len(Buckets(result)) :
                           Buckets(result)[k].id = actions[j].id}) = 1

\* C17: the nextBestAction of generateActions is the head of the sorted list
\* when there is an action and a sentinel, not a missing value, when there
\* is none; the urgency buckets partition the list and keep its order
C17_NextBestAndBuckets ==
  /\ Planned =>
       /\ ValueOf(plan).actions # <<>> =>
            ValueOf(plan).nextBestAction = Some(ValueOf(plan).actions[1])
       /\ ValueOf(plan).actions = <<>> => IsDefined(ValueOf(plan).nextBestAction)
  /\ BucketsPartition

----------------------------------------------------------------------------
(* The leak detector with the AI collaborator (services/gemini.js) *)

\* what the AI service does on one call: no model configured, an answer that
\* holds JSON, an answer without JSON, an answer whose JSON does not parse,
\* or a rejected request
AIOutcomes == {"disabled", "answer", "noJson", "badJson", "rejected"}

\* catch (error): { aiEnabled: true, insights: null, error: error.message }
Caught(error) == [threw |-> FALSE, insights |-> Undefined]

analyzeLeaks(ai) ==
  CASE ai = "disabled" -> [threw |-> FALSE, insights |-> Undefined]
    [] ai = "answer" -> [threw |-> FALSE, insights |-> Some("insights")]
    [] ai = "noJson" -> [threw |-> FALSE, insights |-> Undefined]
    [] ai \in {"badJson", "rejected"} -> Caught(ai)

\* the outcome of one call of detectLeaks with the includeAI flag
detectLeaksAI(snap, arg, wallClock, includeAI, ai) ==
  LET rules == detectLeaks(snap, arg, wallClock)
  IN IF rules.threw \/ ~includeAI THEN rules
     ELSE IF analyzeLeaks(ai).threw THEN [threw |-> TRUE]
     ELSE [rules EXCEPT !.aiInsights = analyzeLeaks(ai).insights]

MaxAIOpps == 2

InitAI ==
  /\ \E o \in SeqsUpTo(OppShapes, MaxAIOpps) :
       snapshot = LeakSnapshot(o, <<>>, <<>>)
  /\ nowArg \in {Some(n) : n \in NowChoices}
  /\ clock \in NowChoices
  /\ runs = <<>>
  /\ kpis = <<>>
  /\ scored = <<>>
  /\ ranked = <<>>
  /\ rankedAll = <<>>
  /\ plan = <<>>
  /\ nextAction = <<>>
  /\ report = <<>>
  /\ wasted = <<>>
  /\ IntegrationIdle

\* one call; the run keeps the flag and what the AI service did
DetectLeaksAI ==
  /\ Len(runs) < 2
  /\ \E includeAI \in BOOLEAN, ai \in AIOutcomes :
       runs' = Append(runs, [includeAI |-> includeAI, ai |-> ai,
                             result |-> detectLeaksAI(snapshot, nowArg, clock,
                                                      includeAI, ai)])
  /\ UNCHANGED <<integrationVars, snapshot, nowArg, clock, kpis, scored,
                 ranked, rankedAll, plan, nextAction, report, wasted>>

NextAI == DetectLeaksAI

SpecAI == InitAI /\ [][NextAI]_vars

\* the AI service was asked and gave no usable answer
AIFailed(run) == run.includeAI /\ run.ai \in {"noJson", "badJson", "rejected"}

\* C18: the calls on one snapshot and now agree on the leak list and the
\* summary whatever the includeAI flag and the AI service do, and a call
\* whose AI answer fails or does not parse returns normally with aiInsights
\* null
C18_AIIndependent ==
  /\ \A j, k \in 1..Len(runs) :
       (Returned(runs[j].result) /\ Returned(runs[k].result)) =>
         /\ runs[j].result.leaks = runs[k].result.leaks
         /\ runs[j].result.summary = runs[k].result.summary
  /\ \A k \in 1..Len(runs) :
       AIFailed(runs[k]) =>
         /\ Returned(runs[k].result)
         /\ runs[k].result.aiInsights = Undefined

----------------------------------------------------------------------------
(* Any of the four operations called on the inputs prepared for it *)

InitFrame == Init \/ InitScore \/ InitDeals \/ InitPlan

NextFrame ==
  \/ snapshot.call = "detectLeaks" /\ DetectLeaks
  \/ snapshot.call = "scoreAllLeads" /\ ScoreAllLeads
  \/ snapshot.call = "prioritizeDeals" /\ PrioritizeDeals
  \/ snapshot.call = "prioritizeDeals" /\ PrioritizeAllDeals
  \/ snapshot.call = "generateActions" /\ GenerateActions

SpecFrame == InitFrame /\ [][NextFrame]_vars

----------------------------------------------------------------------------
(* Wasted effort (ai/leadScoring.js, calculateWastedEffort) *)

MaxWastedActs == 5
MaxWastedDeals == 1
MaxWastedLeads == 1

\* String.prototype.toLowerCase
toLowerCase(text) == [i \in 1..Len(text) |-> LowerChar(text[i])]

DeadStatuses ==
  {<<"l", "o", "s", "t">>,
   <<"a", "b", "a", "n", "d", "o", "n", "e", "d">>,
   <<"c", "l", "o", "s", "e", "d", "_", "l", "o", "s", "t">>}

\* activities.filter(a => new Date(a.createdAt).getTime() > thirtyDaysAgo)
recentActivities(activities, now) ==
  SelectSeq(activities, LAMBDA a : a.createdAt > now - 30 * dayMs)

\* the Set of the contactId values of the lost / abandoned deals; a deal
\* without contactId puts undefined into the Set
deadDealIds(opportunities) ==
  {opportunities[i].contactId :
     i \in {j \in 1..Len(opportunities) :
              /\ IsDefined(opportunities[j].status)
              /\ toLowerCase(ValueOf(opportunities[j].status)) \in DeadStatuses}}

\* touchCountByLead[id] over all the activities (undefined when there is none)
touchCountByLead(activities, id) ==
  LET n == Len(SelectSeq(activities, LAMBDA a : a.contactId = Some(id)))
  IN IF n = 0 THEN Undefined ELSE Some(n)

\* the Set of the ids of the leads still new after five touches or more
unresponsiveLeadIds(activities, leads) ==
  {leads[i].id :
     i \in {j \in 1..Len(leads) :
              /\ leads[j].status = "new"
              /\ GeNum(touchCountByLead(activities, leads[j].id), 5)}}

calculateWastedEffort(activities, opportunities, leads, arg, wallClock) ==
  LET now == NowOf(arg, wallClock)
      recent == recentActivities(activities, now)
      dead == deadDealIds(opportunities)
      unresponsive == unresponsiveLeadIds(activities, leads)
      wastedOnDeadDeals == SelectSeq(recent, LAMBDA a : a.contactId \in dead)
      wastedOnUnresponsive ==
        SelectSeq(recent, LAMBDA a : IsDefined(a.contactId)
                                     /\ ValueOf(a.contactId) \in unresponsive)
      totalActivities == Len(recent)
      wastedActivities == Len(wastedOnDeadDeals) + Len(wastedOnUnresponsive)
      wastedPercentage ==
        IF totalActivities > 0
        THEN RoundDiv(wastedActivities * 100, totalActivities)
        ELSE 0
  IN [totalActivitiesLast30Days |-> totalActivities,
      wastedActivities |-> wastedActivities,
      wastedPercentage |-> wastedPercentage,
      wastedOnDeadDeals |-> Len(wastedOnDeadDeals),
      wastedOnUnresponsive |-> Len(wastedOnUnresponsive),
      recommendation |->
        IF wastedPercentage > 20 THEN "High wasted effort. Review activity targeting."
        ELSE IF wastedPercentage > 10
             THEN "Moderate waste. Consider lead qualification improvements."
        ELSE "Effort well-targeted."]

WastedActShapes ==
  {[contactId |-> Some(1), createdAt |-> 2400 - 24],
   [contactId |-> Some(1), createdAt |-> 2400 - 30 * 24],
   [contactId |-> Some(2), createdAt |-> 2400 - 29 * 24]}

WastedDealShapes ==
  {[status |-> Some(<<"L", "o", "s", "t">>), contactId |-> Some(1)],
   [status |-> Some(<<"a", "b", "a", "n", "d", "o", "n", "e", "d">>), contactId |-> Some(2)],
   [status |-> Undefined, contactId |-> Some(1)]}

WastedLeadShapes ==
  {[id |-> 1, status |-> "new"], [id |-> 1, status |-> "contacted"]}

InitWasted ==
  /\ \E a \in SeqsUpTo(WastedActShapes, MaxWastedActs),
        d \in SeqsUpTo(WastedDealShapes, MaxWastedDeals),
        l \in SeqsUpTo(WastedLeadShapes, MaxWastedLeads) :
       snapshot = [call |-> "calculateWastedEffort",
                   opportunities |-> d, activities |-> a,
                   leads |-> l, reps |-> <<>>]
  /\ nowArg \in {Some(n) : n \in NowChoices}
  /\ clock \in NowChoices
  /\ runs = <<>>
  /\ kpis = <<>>
  /\ scored = <<>>
  /\ ranked = <<>>
  /\ rankedAll = <<>>
  /\ plan = <<>>
  /\ nextAction = <<>>
  /\ report = <<>>
  /\ wasted = <<>>
  /\ IntegrationIdle

CalculateWastedEffort ==
  /\ wasted = <<>>
  /\ wasted' = Some(calculateWastedEffort(snapshot.activities, snapshot.opportunities,
                                          snapshot.leads, nowArg, clock))
  /\ UNCHANGED <<integrationVars, snapshot, nowArg, clock, runs, kpis, scored,
                 ranked, rankedAll, plan, nextAction, report>>

NextWasted == CalculateWastedEffort

SpecWasted == InitWasted /\ [][NextWasted]_vars

\* the positions of the activities created within 30 days before now whose
\* contact belongs to a lost / abandoned deal or is a lead still new after
\* five activities or more
WastedPositions ==
  LET acts == snapshot.activities
      now == NowOf(nowArg, clock)
      DeadContact(c) ==
        \E i \in 1..Len(snapshot.opportunities) :
          /\ IsDefined(snapshot.opportunities[i].status)
          /\ toLowerCase(ValueOf(snapshot.opportunities[i].status)) \in DeadStatuses
          /\ snapshot.opportunities[i].contactId = c
      StuckLead(c) ==
        \E i \in 1..Len(snapshot.leads) :
          /\ snapshot.leads[i].status = "new"
          /\ Some(snapshot.leads[i].id) = c
          /\ Cardinality({k \in 1..Len(acts) : acts[k].contactId = c}) >= 5
  IN {k \in 1..Len(acts) :
        /\ acts[k].createdAt > now - 30 * dayMs
        /\ DeadContact(acts[k].contactId) \/ StuckLead(acts[k].contactId)}

\* C20: wastedActivities is the number of the recent activities on a dead deal's
\* contact or on an unresponsive lead, each counted once, so it is at most
\* totalActivitiesLast30Days and wastedPercentage lies in 0..100 (0 when there
\* is no recent activity)
C20_WastedEffort ==
  wasted # <<>> =>
    LET w == ValueOf(wasted)
    IN /\ w.wastedActivities = Cardinality(WastedPositions)
       /\ w.wastedActivities <= w.totalActivitiesLast30Days
       /\ w.wastedPercentage \in 0..100
       /\ w.totalActivitiesLast30Days = 0 => w.wastedPercentage = 0

----------------------------------------------------------------------------
(* OAuth state signing (services/ghlOAuth.js).  A string is a sequence of   *)
(* one-character strings, a Buffer a sequence of bytes.                     *)

\* the printable ASCII characters in the order of their codes 32..126 (GRAVE
\* holds the place of the grave accent, code 96)
Ascii ==
  <<" ", "!", "\"", "#", "$", "%", "&", "'", "(", ")", "*", "+", ",", "-", ".", "/",
    "0", "1", "2", "3", "4", "5", "6", "7", "8", "9", ":", ";", "<", "=", ">", "?",
    "@", "A", "B", "C", "D", "E", "F", "G", "H", "I", "J", "K", "L", "M", "N", "O",
    "P", "Q", "R", "S", "T", "U", "V", "W", "X", "Y", "Z", "[", "\\", "]", "^", "_",
    "GRAVE", "a", "b", "c", "d", "e", "f", "g", "h", "i", "j", "k", "l", "m", "n", "o",
    "p", "q", "r", "s", "t", "u", "v", "w", "x", "y", "z", "{", "|", "}", "~">>

\* the base64 alphabet in the order of the sextet values 0..63
Base64Alphabet ==
  <<"A", "B", "C", "D", "E", "F", "G", "H", "I", "J", "K", "L", "M", "N", "O", "P",
    "Q", "R", "S", "T", "U", "V", "W", "X", "Y", "Z", "a", "b", "c", "d", "e", "f",
    "g", "h", "i", "j", "k", "l", "m", "n", "o", "p", "q", "r", "s", "t", "u", "v",
    "w", "x", "y", "z", "0", "1", "2", "3", "4", "5", "6", "7", "8", "9", "+", "/">>

\* Buffer.from(text, 'utf8') on ASCII text
Utf8(text) ==
  [i \in 1..Len(text) |-> 31 + (CHOOSE k \in 1..Len(Ascii) : Ascii[k] = text[i])]

\* buffer.toString('utf8'); OTHER stands for any character outside the table
FromUtf8(bytes) ==
  [i \in 1..Len(bytes) |->
     IF bytes[i] \in 32..126 THEN Ascii[bytes[i] - 31] ELSE "OTHER"]

\* buffer.toString('base64')
RECURSIVE ToBase64(_)
ToBase64(bytes) ==
  LET S(v) == Base64Alphabet[v + 1]
  IN IF Len(bytes) = 0 THEN <<>>
     ELSE IF Len(bytes) = 1
          THEN <<S(bytes[1] \div 4), S((bytes[1] % 4) * 16), "=", "=">>
     ELSE IF Len(bytes) = 2
          THEN <<S(bytes[1] \div 4), S((bytes[1] % 4) * 16 + bytes[2] \div 16),
                 S((bytes[2] % 16) * 4), "=">>
     ELSE <<S(bytes[1] \div 4), S((bytes[1] % 4) * 16 + bytes[2] \div 16),
            S((bytes[2] % 16) * 4 + bytes[3] \div 64), S(bytes[3] % 64)>>
          \o ToBase64(SubSeq(bytes, 4, Len(bytes)))

\* text.replace(/x/g, 'y') for single characters
ReplaceChar(text, from, to) ==
  [i \in 1..Len(text) |-> IF text[i] = from THEN to ELSE text[i]]

\* text.replace(/=+$/g, '')
RECURSIVE StripPadding(_)
StripPadding(text) ==
  IF text # <<>> /\ text[Len(text)] = "="
  THEN StripPadding(SubSeq(text, 1, Len(text) - 1))
  ELSE text

base64UrlEncode(bytes) ==
  StripPadding(ReplaceChar(ReplaceChar(ToBase64(bytes), "+", "-"), "/", "_"))

\* Buffer.from(base64, 'base64'): characters outside the alphabet are skipped,
\* decoding stops at the first '=', a single left-over sextet gives no byte
RECURSIVE FromSextets(_)
FromSextets(v) ==
  IF Len(v) < 2 THEN <<>>
  ELSE IF Len(v) = 2 THEN <<v[1] * 4 + v[2] \div 16>>
  ELSE IF Len(v) = 3 THEN <<v[1] * 4 + v[2] \div 16, (v[2] % 16) * 16 + v[3] \div 4>>
  ELSE <<v[1] * 4 + v[2] \div 16, (v[2] % 16) * 16 + v[3] \div 4, (v[3] % 4) * 64 + v[4]>>
       \o FromSextets(SubSeq(v, 5, Len(v)))

FromBase64(text) ==
  LET stops == {i \in 1..Len(text) : text[i] = "="}
      body == IF stops = {} THEN text
              ELSE SubSeq(text, 1, (CHOOSE i \in stops : \A j \in stops : i <= j) - 1)
      known == SelectSeq(body, LAMBDA c : \E k \in 1..64 : Base64Alphabet[k] = c)
  IN FromSextets([i \in 1..Len(known) |->
                    (CHOOSE k \in 1..64 : Base64Alphabet[k] = known[i]) - 1])

base64UrlDecodeToString(base64url) ==
  LET padded == ReplaceChar(ReplaceChar(base64url, "-", "+"), "_", "/")
      padLength == (4 - (Len(padded) % 4)) % 4
  IN FromUtf8(FromBase64(padded \o [i \in 1..padLength |-> "="]))

\* the characters of the literals JSON.stringify writes around the two fields
JsonText ==
  [open |-> <<"{", "\"", "i", "a", "t", "\"", ":">>,
   key |-> <<",", "\"", "r", "e", "t", "u", "r", "n", "U", "r", "l", "\"", ":">>,
   null |-> <<"n", "u", "l", "l">>,
   close |-> <<"}">>]

\* the decimal digits of a non-negative integer
RECURSIVE Decimal(_)
Decimal(n) ==
  IF n < 10 THEN <<Ascii[n + 17]>> ELSE Decimal(n \div 10) \o <<Ascii[(n % 10) + 17]>>

\* the body of a JSON string: quotation mark and reverse solidus are escaped
RECURSIVE Escape(_)
Escape(text) ==
  IF text = <<>> THEN <<>>
  ELSE (IF Head(text) \in {"\"", "\\"} THEN <<"\\", Head(text)>> ELSE <<Head(text)>>)
       \o Escape(Tail(text))

\* JSON.stringify of a payload {iat, returnUrl}; returnUrl is null or a string
JsonStringify(payload) ==
  JsonText.open \o Decimal(payload.iat) \o JsonText.key
  \o (IF IsDefined(payload.returnUrl)
      THEN <<"\"">> \o Escape(ValueOf(payload.returnUrl)) \o <<"\"">>
      ELSE JsonText.null)
  \o JsonText.close

StartsWith(text, prefix) ==
  Len(text) >= Len(prefix) /\ SubSeq(text, 1, Len(prefix)) = prefix

Drop(text, n) == SubSeq(text, n + 1, Len(text))

\* the length of the leading run of digits
RECURSIVE DigitRun(_)
DigitRun(text) ==
  IF text # <<>> /\ Head(text) \in Digits THEN 1 + DigitRun(Tail(text)) ELSE 0

\* the value of a run of digits
RECURSIVE DigitsValue(_)
DigitsValue(text) ==
  IF text = <<>> THEN 0
  ELSE 10 * DigitsValue(SubSeq(text, 1, Len(text) - 1))
       + (CHOOSE d \in 0..9 : Ascii[d + 17] = text[Len(text)])

\* the string that starts after an opening quotation mark, and the text after
\* its closing quotation mark; undefined when the string does not end or an
\* escape is none of \" \\ \/
RECURSIVE ReadString(_, _)
ReadString(text, acc) ==
  IF text = <<>> THEN Undefined
  ELSE IF Head(text) = "\"" THEN Some([value |-> acc, rest |-> Tail(text)])
  ELSE IF Head(text) = "\\"
       THEN IF Len(text) >= 2 /\ text[2] \in {"\"", "\\", "/"}
            THEN ReadString(Drop(text, 2), Append(acc, text[2]))
            ELSE Undefined
  ELSE ReadString(Tail(text), Append(acc, Head(text)))

\* the returnUrl value and the closing brace
ParseReturnUrl(iat, text) ==
  IF text = JsonText.null \o JsonText.close
  THEN Some([iat |-> iat, returnUrl |-> Undefined])
  ELSE IF text # <<>> /\ Head(text) = "\""
       THEN LET read == ReadString(Tail(text), <<>>)
            IN IF IsDefined(read) /\ ValueOf(read).rest = JsonText.close
               THEN Some([iat |-> iat, returnUrl |-> Some(ValueOf(read).value)])
               ELSE Undefined
  ELSE Undefined

\* the iat number and what follows it
ParseIat(text) ==
  LET n == DigitRun(text)
  IN IF n = 0 \/ (n > 1 /\ Head(text) = "0") \/ ~StartsWith(Drop(text, n), JsonText.key)
     THEN Undefined
     ELSE ParseReturnUrl(DigitsValue(SubSeq(text, 1, n)), Drop(text, n + Len(JsonText.key)))

\* JSON.parse on the texts of payload objects {iat, returnUrl} written without
\* white space; undefined stands for the SyntaxError thrown on any other text
JsonParse(text) ==
  IF StartsWith(text, JsonText.open) THEN ParseIat(Drop(text, Len(JsonText.open)))
  ELSE Undefined

\* crypto.createHmac('sha256', secret).update(data).digest(), idealized: one
\* digest per pair of secret and data, no two pairs with the same digest
createHmac(secret, data) == Utf8(secret) \o <<0>> \o Utf8(data)

\* text.split('.')
RECURSIVE Split(_)
Split(text) ==
  LET dots == {i \in 1..Len(text) : text[i] = "."}
  IN IF dots = {} THEN <<text>>
     ELSE LET d == CHOOSE i \in dots : \A j \in dots : i <= j
          IN <<SubSeq(text, 1, d - 1)>> \o Split(Drop(text, d))

\* String(state || '')
OrEmpty(state) == IF IsDefined(state) THEN ValueOf(state) ELSE <<>>

signState(payload, secret) ==
  IF secret = <<>> THEN [threw |-> TRUE]
  ELSE LET data == base64UrlEncode(Utf8(JsonStringify(payload)))
       IN [threw |-> FALSE,
           state |-> data \o <<".">> \o base64UrlEncode(createHmac(secret, data))]

\* the payload returned for a state whose two fields are present: null when
\* the signatures differ in length or timingSafeEqual finds them different
Verified(data, sig, secret) ==
  IF base64UrlEncode(createHmac(secret, data)) # sig THEN Undefined
  ELSE JsonParse(base64UrlDecodeToString(data))

\* the payload is decoded without a look at the signature
DecodeOnly(state, secret) ==
  IF secret = <<>> THEN [threw |-> TRUE]
  ELSE LET fields == Split(OrEmpty(state))
       IN [threw |-> FALSE,
           payload |-> IF Len(fields) < 2 \/ fields[1] = <<>> \/ fields[2] = <<>>
                       THEN Undefined
                       ELSE JsonParse(base64UrlDecodeToString(fields[1]))]

\* the payload, or undefined for the null verifyState returns
verifyState(state, secret) ==
  IF secret = <<>> THEN [threw |-> TRUE]
  ELSE LET fields == Split(OrEmpty(state))
       IN [threw |-> FALSE,
           payload |-> IF Len(fields) < 2 \/ fields[1] = <<>> \/ fields[2] = <<>>
                       THEN Undefined
                       ELSE Verified(fields[1], fields[2], secret)]

\* no operation of the analysis engines has run
AnalysisIdle ==
  /\ nowArg = Undefined
  /\ clock \in NowChoices
  /\ runs = <<>>
  /\ kpis = <<>>
  /\ scored = <<>>
  /\ ranked = <<>>
  /\ rankedAll = <<>>
  /\ plan = <<>>
  /\ nextAction = <<>>
  /\ report = <<>>
  /\ wasted = <<>>

analysisVars == <<nowArg, clock, runs, kpis, scored, ranked, rankedAll, plan,
                  nextAction, report, wasted>>

UrlText ==
  [plain |-> <<"h", "t", "t", "p", "s", ":", "/", "/", "a", ".", "c", "o", "m", "/", "x">>,
   quoted |-> <<"h", "t", "t", "p", ":", "/", "/", "b", ".", "i", "o", "/", "\"", "q", "\\">>]

StatePayloads ==
  {[iat |-> n, returnUrl |-> u] :
     n \in {7, 12, 123}, u \in {Undefined, Some(UrlText.plain), Some(UrlText.quoted)}}

StateSecrets == {<<>>, <<"k", "1">>, <<"k", "2">>}

\* state.replace(/.$/, state.endsWith('A') ? 'B' : 'A')
LastCharReplaced(state) ==
  SubSeq(state, 1, Len(state) - 1) \o <<IF state[Len(state)] = "A" THEN "B" ELSE "A">>

\* the states a caller can put together from the states signState issued for
\* the payloads under any secret, without the use of a secret of its own
CandidateStates(state, payload, secret) ==
  LET fields == Split(state)
  IN {Undefined, Some(state), Some(LastCharReplaced(state)),
      Some(fields[1]), Some(fields[1] \o <<".">>), Some(<<".">> \o fields[2]),
      Some(state \o <<".", "x">>)}
     \cup {Some(Split(signState(p, secret).state)[1] \o <<".">> \o fields[2]) :
             p \in StatePayloads}
     \cup {Some(signState(payload, s).state) : s \in StateSecrets \ {<<>>}}

InitState ==
  /\ \E p \in StatePayloads, s \in StateSecrets :
       snapshot = [call |-> "signState", payload |-> p, secret |-> s]
  /\ AnalysisIdle
  /\ IntegrationIdle

SignState ==
  /\ signed = <<>>
  /\ signed' = Some(signState(snapshot.payload, snapshot.secret))
  /\ UNCHANGED <<snapshot, analysisVars, verified, connection, requests, store,
                 validation, callback>>

VerifyState ==
  /\ signed # <<>>
  /\ ~ValueOf(signed).threw
  /\ verified = <<>>
  /\ \E c \in CandidateStates(ValueOf(signed).state, snapshot.payload, snapshot.secret),
        s \in StateSecrets :
       verified' = Some([state |-> c, secret |-> s, result |-> verifyState(c, s)])
  /\ UNCHANGED <<snapshot, analysisVars, signed, connection, requests, store,
                 validation, callback>>

NextState == SignState \/ VerifyState

SpecState == InitState /\ [][NextState]_vars

\* the data part and the signature part of a state: its first two fields
PartsOf(state) ==
  LET fields == Split(OrEmpty(state))
  IN [data |-> IF Len(fields) >= 1 THEN fields[1] ELSE <<>>,
      sig |-> IF Len(fields) >= 2 THEN fields[2] ELSE <<>>]

\* C21: under a non-empty secret verifyState gives back the payload of a state
\* that signState issued with that secret, and gives null for every state whose
\* data part or signature part is not the one signState issues with that secret
C21_StateRoundTrip ==
  verified # <<>> =>
    LET v == ValueOf(verified)
        issued == [p \in StatePayloads |-> signState(p, v.secret).state]
    IN v.secret # <<>> =>
         /\ ~v.result.threw
         /\ \A p \in StatePayloads :
              v.state = Some(issued[p]) => v.result.payload = Some(p)
         /\ (\A p \in StatePayloads : PartsOf(v.state) # PartsOf(Some(issued[p])))
              => v.result.payload = Undefined

C21_Witness ==
  /\ verified # <<>>
  /\ snapshot.payload.returnUrl = Some(UrlText.quoted)
  /\ ValueOf(verified).state = Some(ValueOf(signed).state)
  /\ ValueOf(verified).secret = snapshot.secret
  /\ ValueOf(verified).result.payload = Some(snapshot.payload)

----------------------------------------------------------------------------
(* GoHighLevel provider (providers/ghl.js, testConnection) *)

ClaimText ==
  [open |-> <<"{", "\"", "l", "o", "c", "a", "t", "i", "o", "n", "I", "d", "\"", ":", "\"">>,
   id |-> <<"l", "o", "c", "_", "j", "w", "t">>,
   header |-> <<"h", "d", "r">>,
   sig |-> <<"s", "i", "g">>]

\* candidates[0] of tryExtractLocationIdFromJwt on the decoded payload: the
\* locationId claim of a payload object that holds this one claim, else null
LocationClaim(text) ==
  IF ~StartsWith(text, ClaimText.open) THEN Undefined
  ELSE LET read == ReadString(Drop(text, Len(ClaimText.open)), <<>>)
       IN IF IsDefined(read) /\ ValueOf(read).rest = <<"}">> /\ ValueOf(read).value # <<>>
          THEN Some(ValueOf(read).value)
          ELSE Undefined

tryExtractLocationIdFromJwt(token) ==
  LET parts == Split(token)
  IN IF Len(parts) < 2 THEN Undefined
     ELSE LocationClaim(base64UrlDecodeToString(parts[2]))

\* the requests of testConnection and how the network answers each of them:
\* search is "found", "empty" or "fail", location is "ok" or "fail"
ErrorText ==
  [token |-> "Missing GHL access token (config.accessToken / config.apiKey or env GHL_ACCESS_TOKEN / GHL_API_KEY)",
   location |-> "Missing GHL locationId. Provide config.locationId (recommended) or use a token that includes locationId claims.",
   fetch |-> "HTTP 401: Unauthorized",
   jwt |-> "GHL access token must be a JWT"]

\* ensureLocationId: the location id, the requests made, and whether it threw
ensureLocationId(provider, net) ==
  IF IsDefined(provider.locationId)
  THEN [locationId |-> provider.locationId, requests |-> <<>>, error |-> Undefined]
  ELSE LET fromJwt == tryExtractLocationIdFromJwt(ValueOf(provider.accessToken))
           search == <<[url |-> "/locations/search", companyId |-> provider.companyId]>>
       IN IF IsDefined(fromJwt)
          THEN [locationId |-> fromJwt, requests |-> <<>>, error |-> Undefined]
          ELSE IF net.search = "found"
               THEN [locationId |-> Some(<<"l", "o", "c", "_", "s">>), requests |-> search,
                     error |-> Undefined]
          ELSE [locationId |-> Undefined, requests |-> search,
                error |-> Some(IF net.search = "fail" THEN ErrorText.fetch
                               ELSE ErrorText.location)]

\* testConnection: the returned object, the requests made, the provider after
testConnection(provider, net) ==
  IF ~IsDefined(provider.accessToken)
  THEN [result |-> [connected |-> FALSE, error |-> Some(ErrorText.token)],
        requests |-> <<>>, provider |-> provider]
  ELSE LET located == ensureLocationId(provider, net)
           with == [provider EXCEPT !.locationId = located.locationId]
           location == <<[url |-> "/locations/", locationId |-> located.locationId]>>
       IN IF IsDefined(located.error)
          THEN [result |-> [connected |-> FALSE, error |-> located.error],
                requests |-> located.requests, provider |-> with]
          ELSE IF net.location = "fail"
               THEN [result |-> [connected |-> FALSE, error |-> Some(ErrorText.fetch)],
                     requests |-> located.requests \o location, provider |-> with]
          ELSE [result |-> [connected |-> TRUE, error |-> Undefined],
                requests |-> located.requests \o location,
                provider |-> [with EXCEPT !.connected = TRUE]]

\* the access tokens: none, one without a dot, two of the shape
\* header.payload.signature (the second with a locationId claim), one of two parts
TokenChoices ==
  {Undefined,
   Some(<<"n", "o", "t", "-", "a", "-", "j", "w", "t">>),
   Some(<<"a", "a", "a", ".", "b", "b", "b", ".", "c", "c", "c">>),
   Some(ClaimText.header \o <<".">>
        \o base64UrlEncode(Utf8(ClaimText.open \o ClaimText.id \o <<"\"", "}">>))
        \o <<".">> \o ClaimText.sig),
   Some(<<"a", "b", ".", "c", "d">>)}

InitProvider ==
  /\ \E t \in TokenChoices,
        l \in {Undefined, Some(<<"l", "o", "c", "_", "1", "2", "3">>)},
        c \in {Undefined, Some(<<"c", "o", "1">>)},
        s \in {"found", "empty", "fail"}, a \in {"ok", "fail"} :
       snapshot = [call |-> "testConnection",
                   provider |-> [accessToken |-> t, locationId |-> l, companyId |-> c,
                                 connected |-> FALSE],
                   config |-> [accessToken |-> t, locationId |-> l],
                   net |-> [search |-> s, location |-> a]]
  /\ AnalysisIdle
  /\ IntegrationIdle

TestConnection ==
  /\ connection = <<>>
  /\ LET done == testConnection(snapshot.provider, snapshot.net)
     IN /\ connection' = Some(done.result)
        /\ requests' = done.requests
        /\ snapshot' = [snapshot EXCEPT !.provider = done.provider]
  /\ UNCHANGED <<analysisVars, signed, verified, store, validation, callback>>

NextProvider == TestConnection

SpecProvider == InitProvider /\ [][NextProvider]_vars

\* a token of the shape header.payload.signature
IsJwtShaped(token) == Len(Split(token)) = 3

\* C22: testConnection with a token that is not JWT-shaped answers
\* connected:false with a message that the token must be a JWT and makes no
\* request, also with a locationId configured; without a token it answers
\* connected:false with the missing-token message and makes no request
C22_NonJwtRejected ==
  connection # <<>> =>
    LET token == snapshot.config.accessToken
    IN /\ ~IsDefined(token) =>
            /\ ValueOf(connection) = [connected |-> FALSE, error |-> Some(ErrorText.token)]
            /\ requests = <<>>
       /\ IsDefined(token) /\ ~IsJwtShaped(ValueOf(token)) =>
            /\ ValueOf(connection) = [connected |-> FALSE, error |-> Some(ErrorText.jwt)]
            /\ requests = <<>>

----------------------------------------------------------------------------
(* Webhook provider (providers/webhook.js).  A normalized record keeps the   *)
(* id, the mapped status or type, the flag of a rep, the source and the raw  *)
(* record; the name, phone, owner and date fields are left out.              *)

\* a || b on two optional fields
OrElse(a, b) == IF IsDefined(a) /\ ValueOf(a) # <<>> THEN a ELSE b

WordText ==
  [won |-> <<"w", "o", "n">>, lost |-> <<"l", "o", "s", "t">>,
   abandon |-> <<"a", "b", "a", "n", "d", "o", "n">>, open |-> <<"o", "p", "e", "n">>,
   abandoned |-> <<"a", "b", "a", "n", "d", "o", "n", "e", "d">>,
   call |-> <<"c", "a", "l", "l">>, email |-> <<"e", "m", "a", "i", "l">>,
   sms |-> <<"s", "m", "s">>, text |-> <<"t", "e", "x", "t">>,
   meet |-> <<"m", "e", "e", "t">>, meeting |-> <<"m", "e", "e", "t", "i", "n", "g">>,
   task |-> <<"t", "a", "s", "k">>, note |-> <<"n", "o", "t", "e">>,
   contact |-> <<"c", "o", "n", "t", "a", "c", "t">>,
   contacted |-> <<"c", "o", "n", "t", "a", "c", "t", "e", "d">>,
   qualif |-> <<"q", "u", "a", "l", "i", "f">>,
   qualified |-> <<"q", "u", "a", "l", "i", "f", "i", "e", "d">>,
   unqual |-> <<"u", "n", "q", "u", "a", "l">>,
   disqual |-> <<"d", "i", "s", "q", "u", "a", "l">>,
   unqualified |-> <<"u", "n", "q", "u", "a", "l", "i", "f", "i", "e", "d">>,
   new |-> <<"n", "e", "w">>]

mapStatus(status) ==
  IF ~IsDefined(status) \/ ValueOf(status) = <<>> THEN WordText.open
  ELSE LET s == toLowerCase(ValueOf(status))
       IN IF Includes(s, WordText.won) THEN WordText.won
          ELSE IF Includes(s, WordText.lost) THEN WordText.lost
          ELSE IF Includes(s, WordText.abandon) THEN WordText.abandoned
          ELSE WordText.open

mapActivityType(type) ==
  IF ~IsDefined(type) \/ ValueOf(type) = <<>> THEN WordText.note
  ELSE LET t == toLowerCase(ValueOf(type))
       IN IF Includes(t, WordText.call) THEN WordText.call
          ELSE IF Includes(t, WordText.email) THEN WordText.email
          ELSE IF Includes(t, WordText.sms) \/ Includes(t, WordText.text) THEN WordText.sms
          ELSE IF Includes(t, WordText.meet) THEN WordText.meeting
          ELSE IF Includes(t, WordText.task) THEN WordText.task
          ELSE WordText.note

mapLeadStatus(status) ==
  IF ~IsDefined(status) \/ ValueOf(status) = <<>> THEN WordText.new
  ELSE LET s == toLowerCase(ValueOf(status))
       IN IF Includes(s, WordText.contact) THEN WordText.contacted
          ELSE IF Includes(s, WordText.qualif) THEN WordText.qualified
          ELSE IF Includes(s, WordText.unqual) \/ Includes(s, WordText.disqual)
               THEN WordText.unqualified
          ELSE WordText.new

\* an id made from the clock: wh_opp_${Date.now()} and the like
GeneratedId(prefix, wallClock) == Some(<<prefix>> \o Decimal(wallClock))

normalizeContact(c) ==
  [id |-> OrElse(c.id, c.contact_id), email |-> c.email, source |-> "webhook", raw |-> c]

normalizeOpportunity(o, wallClock) ==
  [id |-> OrElse(o.id, GeneratedId("wh_opp", wallClock)),
   status |-> mapStatus(OrElse(o.status, o.stage_type)),
   source |-> "webhook", raw |-> o]

normalizeActivity(a, wallClock) ==
  [id |-> OrElse(a.id, GeneratedId("wh_act", wallClock)),
   type |-> mapActivityType(OrElse(a.type, a.activity_type)),
   source |-> "webhook", raw |-> a]

normalizeLead(l, wallClock) ==
  [id |-> OrElse(l.id, GeneratedId("wh_lead", wallClock)),
   status |-> mapLeadStatus(l.status),
   source |-> "webhook", raw |-> l]

\* active: r.active !== false
normalizeRep(r) ==
  [id |-> OrElse(r.id, r.user_id), active |-> r.active # Some(FALSE),
   source |-> "webhook"]

Collections == {"contacts", "opportunities", "activities", "leads", "reps"}

\* the normalized record of one collection
Normalize(collection, r, wallClock) ==
  CASE collection = "contacts" -> normalizeContact(r)
    [] collection = "opportunities" -> normalizeOpportunity(r, wallClock)
    [] collection = "activities" -> normalizeActivity(r, wallClock)
    [] collection = "leads" -> normalizeLead(r, wallClock)
    [] collection = "reps" -> normalizeRep(r)

\* records.map(r => this.normalizeX(r))
NormalizeAll(collection, records, wallClock) ==
  [i \in 1..Len(records) |-> Normalize(collection, records[i], wallClock)]

\* the dataStore of a freshly loaded module, and after clearData
EmptyStore ==
  [contacts |-> <<>>, opportunities |-> <<>>, activities |-> <<>>, leads |-> <<>>,
   reps |-> <<>>, lastUpdated |-> Undefined]

\* every collection of the payload replaces the stored one
ReplaceAlways(data, payload, mode, wallClock) ==
  [f \in DOMAIN data |->
     IF f = "lastUpdated" THEN Some(wallClock)
     ELSE IF ~IsDefined(payload[f]) THEN data[f]
     ELSE NormalizeAll(f, ValueOf(payload[f]), wallClock)]

\* the dataStore after ingestData(payload, mode)
ingestData(data, payload, mode, wallClock) ==
  [f \in DOMAIN data |->
     IF f = "lastUpdated" THEN Some(wallClock)
     ELSE IF ~IsDefined(payload[f]) THEN data[f]
     ELSE IF mode = "replace" THEN NormalizeAll(f, ValueOf(payload[f]), wallClock)
     ELSE data[f] \o NormalizeAll(f, ValueOf(payload[f]), wallClock)]

\* the dataStats of testConnection
dataStats(data) ==
  [contacts |-> Len(data.contacts), opportunities |-> Len(data.opportunities),
   activities |-> Len(data.activities), leads |-> Len(data.leads),
   reps |-> Len(data.reps), lastUpdated |-> data.lastUpdated]

MaxStored == 2

\* the raw records of the payloads, two for each collection
RawShapes ==
  [contacts |->
     {[id |-> Some(<<"c", "1">>), contact_id |-> Undefined, email |-> Some(<<"a", "@", "b">>)],
      [id |-> Undefined, contact_id |-> Some(<<"c", "2">>), email |-> Undefined]},
   opportunities |->
     {[id |-> Some(<<"o", "1">>), status |-> Some(<<"C", "l", "o", "s", "e", "d", " ", "W", "o", "n">>),
       stage_type |-> Undefined],
      [id |-> Undefined, status |-> Undefined, stage_type |-> Some(WordText.abandoned)]},
   activities |->
     {[id |-> Some(<<"a", "1">>), type |-> Some(<<"P", "h", "o", "n", "e", " ", "C", "a", "l", "l">>),
       activity_type |-> Undefined],
      [id |-> Undefined, type |-> Undefined, activity_type |-> Undefined]},
   leads |->
     {[id |-> Some(<<"l", "1">>), status |-> Some(<<"C", "o", "n", "t", "a", "c", "t", "e", "d">>)],
      [id |-> Undefined, status |-> Undefined]},
   reps |->
     {[id |-> Some(<<"r", "1">>), user_id |-> Undefined, active |-> Undefined],
      [id |-> Undefined, user_id |-> Some(<<"r", "2">>), active |-> Some(FALSE)]}]

\* the payloads: each collection is absent or an array, one array at most
\* holds a record, and of the other collections none, one or all are present
PayloadChoices ==
  LET Others(k) == {{}, Collections \ {k}} \cup {{c} : c \in Collections \ {k}}
  IN {[c \in Collections |-> IF c \in present THEN Some(<<>>) ELSE Undefined] :
        present \in Others("none")}
     \cup UNION {{[c \in Collections |->
                     IF c = k THEN Some(<<r>>)
                     ELSE IF c \in present THEN Some(<<>>) ELSE Undefined] :
                    r \in RawShapes[k], present \in Others(k)} :
                 k \in Collections}

\* the number of records in the store
Stored(data) ==
  Len(data.contacts) + Len(data.opportunities) + Len(data.activities)
  + Len(data.leads) + Len(data.reps)

InitStore ==
  /\ \E call \in {"load"} : snapshot = [call |-> call]
  /\ AnalysisIdle
  /\ store = EmptyStore
  /\ signed = <<>>
  /\ verified = <<>>
  /\ connection = <<>>
  /\ requests = <<>>
  /\ validation = <<>>
  /\ callback = <<>>

\* POST /webhook/ingest arrives with its data and mode
ReceiveIngest ==
  /\ snapshot.call # "ingestData"
  /\ \E p \in PayloadChoices, mode \in {"replace", "append"} :
       /\ Stored(ingestData(store, p, mode, clock)) <= MaxStored
       /\ snapshot' = [call |-> "ingestData", payload |-> p, mode |-> mode]
  /\ connection' = <<>>
  /\ UNCHANGED <<analysisVars, store, signed, verified, requests, validation, callback>>

IngestData ==
  /\ snapshot.call = "ingestData"
  /\ store' = ingestData(store, snapshot.payload, snapshot.mode, clock)
  /\ snapshot' = [call |-> "ingested"]
  /\ UNCHANGED <<analysisVars, connection, signed, verified, requests, validation,
                 callback>>

ClearData ==
  /\ snapshot.call # "ingestData"
  /\ store' = EmptyStore
  /\ snapshot' = [call |-> "clearData"]
  /\ connection' = <<>>
  /\ UNCHANGED <<analysisVars, signed, verified, requests, validation, callback>>

WebhookTestConnection ==
  /\ snapshot.call # "ingestData"
  /\ snapshot' = [call |-> "testConnection"]
  /\ connection' = Some([connected |-> TRUE, dataStats |-> dataStats(store)])
  /\ UNCHANGED <<analysisVars, store, signed, verified, requests, validation, callback>>

\* getContacts, getOpportunities, getActivities, getLeads and getReps
GetAllData ==
  /\ snapshot.call # "ingestData"
  /\ snapshot' = [call |-> "getAllData"]
  /\ connection' = Some([c \in Collections |-> store[c]])
  /\ UNCHANGED <<analysisVars, store, signed, verified, requests, validation, callback>>

NextStore ==
  ReceiveIngest \/ IngestData \/ ClearData \/ WebhookTestConnection \/ GetAllData

SpecStore == InitStore /\ [][NextStore]_vars

CanonicalWords ==
  [leads |-> {WordText.new, WordText.contacted, WordText.qualified, WordText.unqualified},
   opportunities |-> {WordText.open, WordText.won, WordText.lost, WordText.abandoned},
   activities |-> {WordText.call, WordText.email, WordText.sms, WordText.meeting,
                   WordText.note, WordText.task}]

\* the status and type values of incoming records: the canonical words, the
\* words of other systems, an empty text and no value
IncomingWords ==
  [leads |-> {Some(w) : w \in CanonicalWords.leads}
             \cup {Some(<<"C", "o", "n", "t", "a", "c", "t", "e", "d">>),
                   Some(<<"D", "i", "s", "q", "u", "a", "l", "i", "f", "i", "e", "d">>),
                   Some(<<"h", "o", "t">>), Some(<<>>), Undefined},
   opportunities |-> {Some(w) : w \in CanonicalWords.opportunities}
                     \cup {Some(<<"C", "l", "o", "s", "e", "d", " ", "W", "o", "n">>),
                           Some(<<>>), Undefined},
   activities |-> {Some(w) : w \in CanonicalWords.activities}
                  \cup {Some(<<"P", "h", "o", "n", "e", " ", "C", "a", "l", "l">>),
                        Some(WordText.text), Undefined}]

\* a raw record of a collection with the given id and status or type
RawRecord(collection, id, word) ==
  CASE collection = "leads" -> [id |-> id, status |-> word]
    [] collection = "opportunities" -> [id |-> id, status |-> word, stage_type |-> Undefined]
    [] collection = "activities" -> [id |-> id, type |-> word, activity_type |-> Undefined]

\* the status of a normalized lead or opportunity, the type of an activity
WordOf(collection, record) ==
  IF collection = "activities" THEN record.type ELSE record.status

\* the number of times a record is sent back to the webhook
MaxPasses == 2

InitNormalize ==
  /\ \E k \in {"leads", "opportunities", "activities"},
        id \in {Some(<<"x", "1">>), Undefined} :
       \E w \in IncomingWords[k] :
         snapshot = [call |-> "normalize", collection |-> k,
                     raw |-> RawRecord(k, id, w), passes |-> 0]
  /\ AnalysisIdle
  /\ store = EmptyStore
  /\ signed = <<>>
  /\ verified = <<>>
  /\ connection = <<>>
  /\ requests = <<>>
  /\ validation = <<>>
  /\ callback = <<>>

\* the record of another system is ingested
IngestRaw ==
  /\ snapshot.call = "normalize"
  /\ snapshot.passes = 0
  /\ store' = ingestData(store,
                         [c \in Collections |->
                            IF c = snapshot.collection THEN Some(<<snapshot.raw>>)
                            ELSE Undefined],
                         "replace", clock)
  /\ snapshot' = [snapshot EXCEPT !.passes = 1]
  /\ UNCHANGED <<analysisVars, signed, verified, connection, requests, validation,
                 callback>>

\* the stored, normalized record is read back and ingested again
IngestNormalized ==
  /\ snapshot.call = "normalize"
  /\ snapshot.passes \in 1..(MaxPasses - 1)
  /\ LET k == snapshot.collection
         n == store[k][1]
     IN store' = ingestData(store,
                            [c \in Collections |->
                               IF c = k THEN Some(<<RawRecord(k, n.id, Some(WordOf(k, n)))>>)
                               ELSE Undefined],
                            "replace", clock)
  /\ snapshot' = [snapshot EXCEPT !.passes = @ + 1]
  /\ UNCHANGED <<analysisVars, signed, verified, connection, requests, validation,
                 callback>>

NextNormalize == IngestRaw \/ IngestNormalized

SpecNormalize == InitNormalize /\ [][NextNormalize]_vars

\* C30: a record whose status or type is a word of the canonical vocabulary
\* of its collection keeps that word when it is ingested: mapLeadStatus,
\* mapStatus and mapActivityType map every canonical word to itself.
C30_CanonicalWordsKept ==
  [][snapshot.call = "normalize" =>
       LET k == snapshot.collection
           w == WordOf(k, snapshot.raw)
           before == IF snapshot.passes = 0 THEN w ELSE Some(WordOf(k, store[k][1]))
       IN (IsDefined(before) /\ ValueOf(before) \in CanonicalWords[k]) =>
            WordOf(k, store'[k][1]) = ValueOf(before)]_vars

----------------------------------------------------------------------------
(* Further properties of the leak detector *)

\* C25: in every returned result, every lead with status 'new' and no
\* firstContactedAt that was created more than 24 hours before now has an
\* UNTOUCHED_LEAD leak
C25_UntouchedAfter24Hours ==
  \A k \in 1..Len(runs) : Returned(runs[k]) =>
    \A i \in 1..Len(snapshot.leads) :
      LET lead == snapshot.leads[i]
      IN (/\ lead.status = "new"
          /\ ~IsDefined(lead.firstContactedAt)
          /\ RunNow(k) - lead.createdAt > 24 * hourMs) =>
           LeaksAbout(runs[k], "UNTOUCHED_LEAD", lead.id) # <<>>

\* C28: in every returned result no open opportunity has both a
\* STALE_OPPORTUNITY leak and a MISSING_FOLLOW_UP leak
C28_StaleExcludesMissingFollowUp ==
  \A k \in 1..Len(runs) : Returned(runs[k]) =>
    \A i \in 1..Len(snapshot.opportunities) :
      LET o == snapshot.opportunities[i]
      IN o.status = "open" =>
           ~(/\ LeaksAbout(runs[k], "STALE_OPPORTUNITY", o.id) # <<>>
             /\ LeaksAbout(runs[k], "MISSING_FOLLOW_UP", o.id) # <<>>)

\* a returned result with a MISSING_FOLLOW_UP leak for an open opportunity
\* that was created more than 30 days ago and whose contact has an older
\* activity as well
C28_Witness ==
  \E k \in 1..Len(runs) : Returned(runs[k]) /\
    \E i \in 1..Len(snapshot.opportunities) :
      LET o == snapshot.opportunities[i]
      IN /\ o.status = "open"
         /\ (RunNow(k) - o.createdAt) \div dayMs > STALE_DAYS
         /\ LeaksAbout(runs[k], "MISSING_FOLLOW_UP", o.id) # <<>>
         /\ Len(activityByContact(snapshot.activities, o.contactId)) > 1

----------------------------------------------------------------------------
(* Attribution of activities to deals in prioritizeDeals *)

\* the activities prioritizeDeals passes to prioritizeDeal for the deal
UsedToScore(deal) ==
  LET used == DealActivities(snapshot.activities, snapshot.opportunities, deal)
  IN {used[i] : i \in 1..Len(used)}

\* C27: once prioritizeDeals has ranked the deals, for every open deal D every
\* activity without a dealId whose contactId is D's contactId is among the
\* activities D was scored with, whatever other deals carry that contactId,
\* and every activity whose dealId is D's id is among them as well
C27_ContactActivitiesUsed ==
  ranked # <<>> =>
    \A i \in 1..Len(snapshot.opportunities) :
      LET D == snapshot.opportunities[i]
      IN D.status = Some("open") =>
           \A j \in 1..Len(snapshot.activities) :
             LET act == snapshot.activities[j]
             IN /\ (~IsDefined(act.dealId) /\ IsDefined(act.contactId)
                    /\ act.contactId = D.contactId) => act \in UsedToScore(D)
                /\ act.dealId = Some(D.id) => act \in UsedToScore(D)

----------------------------------------------------------------------------
(* The action plan made from the ranked deals: generateActions called with  *)
(* the deals prioritizeDeals returned                                       *)

\* generateActions({leadScores: [], dealPriorities: ranked.deals, leaks: []})
GenerateFromRanked ==
  /\ ranked # <<>>
  /\ plan = <<>>
  /\ plan' = Some(generateActions([leadScores |-> <<>>,
                                   dealPriorities |-> ValueOf(ranked).deals,
                                   leaks |-> <<>>],
                                  nowArg, clock))
  /\ UNCHANGED <<integrationVars, snapshot, nowArg, clock, runs, kpis, scored,
                 ranked, rankedAll, nextAction, report, wasted>>

NextPipeline == PrioritizeDeals \/ GenerateFromRanked

SpecPipeline == InitDeals /\ [][NextPipeline]_vars

\* the actions of the returned plan that are of one of the types
PlannedOf(types) ==
  IF Planned
  THEN {ValueOf(plan).actions[i] : i \in
          {j \in 1..Len(ValueOf(plan).actions) : ValueOf(plan).actions[j].type \in types}}
  ELSE {}

\* C29: the recommendation of a ranked deal is RESCUE exactly when its
\* urgency is IMMEDIATE, and in a plan made from the ranked deals no deal is
\* the subject of a RESCUE_DEAL action and of a CLOSE_DEAL or FOLLOW_UP action
C29_RescueExclusive ==
  /\ ranked # <<>> =>
       \A j \in 1..Len(ValueOf(ranked).deals) :
         LET p == ValueOf(ranked).deals[j]
         IN p.recommendation.action = "RESCUE" <=> p.urgency = "IMMEDIATE"
  /\ \A a \in PlannedOf({"RESCUE_DEAL"}), b \in PlannedOf({"CLOSE_DEAL", "FOLLOW_UP"}) :
       a.relatedId # b.relatedId

\* a returned plan with a RESCUE_DEAL action for one ranked deal and a
\* CLOSE_DEAL or FOLLOW_UP action for another
C29_Witness ==
  /\ PlannedOf({"RESCUE_DEAL"}) # {}
  /\ PlannedOf({"CLOSE_DEAL", "FOLLOW_UP"}) # {}
  /\ Len(ValueOf(ranked).deals) > 1

----------------------------------------------------------------------------
(* Contact validation service: validateOutreach and validateBatch *)

\* !value of a text field: undefined or the empty string
Missing(field) == ~IsDefined(field) \/ ValueOf(field) = <<>>

\* contacts.find(c => c.id === contactId)
FindContact(contacts, contactId) ==
  LET hits == {i \in 1..Len(contacts) : contacts[i].id = contactId}
  IN IF hits = {} THEN Undefined
     ELSE Some(contacts[CHOOSE i \in hits : \A j \in hits : i <= j])

\* contactActivities.sort((a, b) => new Date(b.createdAt) - new Date(a.createdAt))[0]
LatestActivity(contactActivities) ==
  LET latest == MaxOf({contactActivities[i].createdAt : i \in 1..Len(contactActivities)})
      hits == {i \in 1..Len(contactActivities) : contactActivities[i].createdAt = latest}
  IN contactActivities[CHOOSE i \in hits : \A j \in hits : i <= j]

\* a.outcome === 'complaint' || a.subject?.toLowerCase().includes('issue')
IsNegative(a) ==
  \/ a.outcome = "complaint"
  \/ /\ IsDefined(a.subject)
     /\ Includes(toLowerCase(ValueOf(a.subject)), <<"i", "s", "s", "u", "e">>)

\* VALIDATION 1 to 6, failures: the codes in the order they are pushed
Failures(contact, params, contactActivities, wallClock) ==
  (IF params.outreachType \in {"sms", "review_request"} /\ Missing(contact.phone)
   THEN <<"MISSING_PHONE">> ELSE <<>>)
  \o (IF params.outreachType \in {"email", "follow_up"} /\ Missing(contact.email)
      THEN <<"MISSING_EMAIL">> ELSE <<>>)
  \o (IF /\ params.outreachType = "review_request"
         /\ ~\E i \in 1..Len(contactActivities) :
              wallClock - contactActivities[i].createdAt < 7 * dayMs
      THEN <<"NO_RECENT_INTERACTION">> ELSE <<>>)
  \o (IF params.outreachType = "follow_up" /\ Len(contactActivities) = 0
      THEN <<"NO_PRIOR_INTERACTION">> ELSE <<>>)
  \o (IF /\ params.outreachType = "review_request"
         /\ Len(contactActivities) > 0
         /\ LatestActivity(contactActivities).outcome = "negative"
      THEN <<"NEGATIVE_LAST_INTERACTION">> ELSE <<>>)
  \o (IF /\ params.outreachType = "review_request"
         /\ \E i \in 1..Len(contactActivities) :
              /\ wallClock - contactActivities[i].createdAt < 30 * dayMs
              /\ IsNegative(contactActivities[i])
      THEN <<"RECENT_COMPLAINT">> ELSE <<>>)
  \o (IF contact.status = Some("do_not_contact") \/ contact.optedOut
      THEN <<"OPTED_OUT">> ELSE <<>>)

\* VALIDATION 3, 4 and 6, warnings
Warnings(contact, params, contactActivities, opportunities, wallClock) ==
  (IF /\ IsDefined(params.repId)
      /\ ~\E i \in 1..Len(contactActivities) :
           Some(contactActivities[i].performedBy) = params.repId
      /\ ~\E i \in 1..Len(opportunities) :
           /\ opportunities[i].contactId = params.contactId
           /\ Some(opportunities[i].assignedTo) = params.repId
   THEN <<"REP_NO_RELATIONSHIP">> ELSE <<>>)
  \o (IF \E i \in 1..Len(contactActivities) :
           /\ wallClock - contactActivities[i].createdAt < 24 * hourMs
           /\ contactActivities[i].type \in {"email", "sms"}
      THEN <<"DUPLICATE_OUTREACH_24H">> ELSE <<>>)
  \o (IF contact.status = Some("inactive") /\ params.outreachType # "win_back"
      THEN <<"INACTIVE_CONTACT">> ELSE <<>>)

\* the final status with the warnings looked at first
WarningsFirst(failures, warnings) ==
  IF Len(warnings) > 0 THEN "HOLD"
  ELSE IF Len(failures) > 0 THEN "FAIL"
  ELSE "PASS"

\* Determine Final Status
FinalStatus(failures, warnings) ==
  IF Len(failures) > 0 THEN "FAIL"
  ELSE IF Len(warnings) > 0 THEN "HOLD"
  ELSE "PASS"

validateOutreach(params, crmData, wallClock) ==
  LET found == FindContact(crmData.contacts, params.contactId)
      contactActivities == SelectSeq(crmData.activities,
                                     LAMBDA a : a.contactId = params.contactId)
  IN IF ~IsDefined(found)
     THEN [contactId |-> params.contactId, status |-> "FAIL",
           failures |-> <<"CONTACT_NOT_FOUND">>, warnings |-> <<>>]
     ELSE LET failures == Failures(ValueOf(found), params, contactActivities, wallClock)
              warnings == Warnings(ValueOf(found), params, contactActivities,
                                   crmData.opportunities, wallClock)
          IN [contactId |-> params.contactId,
              status |-> FinalStatus(failures, warnings),
              failures |-> failures, warnings |-> warnings]

\* the number of details with the status
CountStatus(details, status) ==
  Cardinality({i \in 1..Len(details) : details[i].status = status})

validateBatch(items, crmData, wallClock) ==
  LET details == [i \in 1..Len(items) |-> validateOutreach(items[i], crmData, wallClock)]
  IN [total |-> Len(items),
      passed |-> CountStatus(details, "PASS"),
      failed |-> CountStatus(details, "FAIL"),
      held |-> Cardinality({i \in 1..Len(details) :
                              details[i].status \notin {"PASS", "FAIL"}}),
      details |-> details]

----------------------------------------------------------------------------
(* Inputs of the validation service *)

MaxOutreachActs == 2
MaxItems == 2

\* the contact c1 of the CRM data, if there is one
OutreachContacts ==
  {[id |-> "c1", phone |-> Some(<<"5", "5", "5">>), email |-> Some(<<"a", "@", "b">>),
    status |-> Some("active"), optedOut |-> FALSE],
   [id |-> "c1", phone |-> Undefined, email |-> Some(<<>>),
    status |-> Undefined, optedOut |-> FALSE],
   [id |-> "c1", phone |-> Some(<<"5", "5", "5">>), email |-> Some(<<"a", "@", "b">>),
    status |-> Some("do_not_contact"), optedOut |-> FALSE],
   [id |-> "c1", phone |-> Some(<<"5", "5", "5">>), email |-> Some(<<"a", "@", "b">>),
    status |-> Some("active"), optedOut |-> TRUE],
   [id |-> "c1", phone |-> Some(<<"5", "5", "5">>), email |-> Undefined,
    status |-> Some("inactive"), optedOut |-> FALSE]}

OutreachActs ==
  {[contactId |-> "c1", performedBy |-> "rep_1", type |-> "email", outcome |-> "completed",
    subject |-> Undefined, createdAt |-> 2400 - 2],
   [contactId |-> "c1", performedBy |-> "rep_2", type |-> "call", outcome |-> "negative",
    subject |-> Some(<<"P", "r", "i", "c", "e">>), createdAt |-> 2400 - 3 * 24],
   [contactId |-> "c1", performedBy |-> "rep_1", type |-> "call", outcome |-> "completed",
    subject |-> Some(<<"I", "s", "s", "u", "e", "s">>), createdAt |-> 2400 - 20 * 24]}

OutreachOpps ==
  {<<>>, <<[id |-> "o1", contactId |-> "c1", assignedTo |-> "rep_2"]>>}

OutreachTypes == {"review_request", "follow_up", "promo", "sms", "email", "win_back"}

\* the requests of validateOutreach
OutreachRequests ==
  {[contactId |-> c, outreachType |-> t, repId |-> r] :
     c \in {"c1", "c9"}, t \in OutreachTypes, r \in {Undefined, Some("rep_1"), Some("rep_2")}}

\* the items of the batches
BatchItems ==
  {[contactId |-> c, outreachType |-> t, repId |-> Some("rep_2")] :
     c \in {"c1", "c9"}, t \in {"review_request", "promo", "email"}}

CrmChoices ==
  {[contacts |-> c, activities |-> a, opportunities |-> o] :
     c \in {<<>>} \cup {<<x>> : x \in OutreachContacts},
     a \in SeqsUpTo(OutreachActs, MaxOutreachActs),
     o \in OutreachOpps}

InitOutreach ==
  /\ \E crm \in CrmChoices :
       \E items \in {<<r>> : r \in OutreachRequests} \cup SeqsUpTo(BatchItems, MaxItems) :
         \E call \in IF Len(items) = 1 THEN {"validateOutreach", "validateBatch"}
                     ELSE {"validateBatch"} :
           snapshot = [call |-> call, crmData |-> crm, items |-> items]
  /\ AnalysisIdle
  /\ store = <<>>
  /\ signed = <<>>
  /\ verified = <<>>
  /\ connection = <<>>
  /\ requests = <<>>
  /\ validation = <<>>
  /\ callback = <<>>

ValidateOutreach ==
  /\ snapshot.call = "validateOutreach"
  /\ validation = <<>>
  /\ validation' = Some(validateOutreach(snapshot.items[1], snapshot.crmData, clock))
  /\ UNCHANGED <<analysisVars, snapshot, store, signed, verified, connection, requests,
                 callback>>

ValidateBatch ==
  /\ snapshot.call = "validateBatch"
  /\ validation = <<>>
  /\ validation' = Some(validateBatch(snapshot.items, snapshot.crmData, clock))
  /\ UNCHANGED <<analysisVars, snapshot, store, signed, verified, connection, requests,
                 callback>>

NextOutreach == ValidateOutreach \/ ValidateBatch

SpecOutreach == InitOutreach /\ [][NextOutreach]_vars

\* the validation results of the call, one for each item
OutreachResults ==
  IF validation = <<>> THEN <<>>
  ELSE IF snapshot.call = "validateBatch" THEN ValueOf(validation).details
  ELSE <<ValueOf(validation)>>

\* the contact of the item is not in the CRM data, has opted out or has the
\* status 'do_not_contact'
MustNotBeContacted(item) ==
  \A i \in 1..Len(snapshot.crmData.contacts) :
    LET c == snapshot.crmData.contacts[i]
    IN c.id = item.contactId => (c.optedOut \/ c.status = Some("do_not_contact"))

\* C24: every validation result has status FAIL exactly when its failures
\* are not empty, HOLD exactly when the failures are empty and the warnings
\* are not, PASS exactly when both are empty; the result for a contact that
\* is not found, has opted out or is 'do_not_contact' is FAIL for every
\* outreach type; and the passed, failed and held counts of validateBatch
\* add up to the number of items
C24_StatusFromFailures ==
  /\ \A i \in 1..Len(OutreachResults) :
       LET r == OutreachResults[i]
       IN /\ r.status = "FAIL" <=> r.failures # <<>>
          /\ r.status = "HOLD" <=> (r.failures = <<>> /\ r.warnings # <<>>)
          /\ r.status = "PASS" <=> (r.failures = <<>> /\ r.warnings = <<>>)
          /\ MustNotBeContacted(snapshot.items[i]) => r.status \notin {"PASS", "HOLD"}
  /\ (validation # <<>> /\ snapshot.call = "validateBatch") =>
       LET b == ValueOf(validation)
       IN b.passed + b.failed + b.held = Len(snapshot.items)

\* a batch of two items validated, one for an opted-out contact that has a
\* warning as well and one for a contact that is not found
C24_Witness ==
  /\ validation # <<>>
  /\ snapshot.call = "validateBatch"
  /\ Len(snapshot.items) = 2
  /\ \E i, j \in 1..2 :
       /\ ValueOf(validation).details[i].failures = <<"OPTED_OUT">>
       /\ ValueOf(validation).details[i].warnings # <<>>
       /\ ValueOf(validation).details[j].failures = <<"CONTACT_NOT_FOUND">>

----------------------------------------------------------------------------
(* GHL OAuth callback: GET /auth/ghl/callback *)

\* the first position of one of the characters in the text, 0 when there is none
FirstOf(text, chars) ==
  LET hits == {i \in 1..Len(text) : text[i] \in chars}
  IN IF hits = {} THEN 0 ELSE CHOOSE i \in hits : \A j \in hits : i <= j

\* the text without the leading characters that are in the set
RECURSIVE SkipLeading(_, _)
SkipLeading(text, chars) ==
  IF text # <<>> /\ Head(text) \in chars THEN SkipLeading(Tail(text), chars) ELSE text

SchemeChars ==
  {"a", "b", "c", "d", "e", "f", "g", "h", "i", "j", "k", "l", "m", "n", "o", "p", "q",
   "r", "s", "t", "u", "v", "w", "x", "y", "z", "0", "1", "2", "3", "4", "5", "6", "7",
   "8", "9", "+", "-", "."}

\* new URL(text) without a base, for texts without a port: undefined stands
\* for the TypeError of a text without a scheme or of an http(s) URL without
\* a host; the host of an http(s) URL follows the slashes and the userinfo
\* and ends at the path, query or fragment; a URL of another scheme has the
\* origin 'null'
ParseUrl(text) ==
  LET colon == FirstOf(text, {":"})
      scheme == toLowerCase(SubSeq(text, 1, colon - 1))
      authority == LET rest == SkipLeading(Drop(text, colon), {"/", "\\"})
                       end == FirstOf(rest, {"/", "\\", "?", "#"})
                   IN IF end = 0 THEN rest ELSE SubSeq(rest, 1, end - 1)
      ats == {i \in 1..Len(authority) : authority[i] = "@"}
      host == IF ats = {} THEN authority ELSE Drop(authority, MaxOf(ats))
  IN IF colon <= 1 THEN Undefined
     ELSE IF \E i \in 1..Len(scheme) : scheme[i] \notin SchemeChars THEN Undefined
     ELSE IF scheme[1] \in {"0", "1", "2", "3", "4", "5", "6", "7", "8", "9", "+", "-", "."}
          THEN Undefined
     ELSE IF scheme \notin {<<"h", "t", "t", "p">>, <<"h", "t", "t", "p", "s">>}
          THEN Some([protocol |-> scheme \o <<":">>, origin |-> <<"n", "u", "l", "l">>])
     ELSE IF host = <<>> THEN Undefined
     ELSE Some([protocol |-> scheme \o <<":">>,
                origin |-> scheme \o <<":", "/", "/">> \o toLowerCase(host)])

\* every URL that parses is allowed
AnyParsedUrl(returnUrl, allowedOrigins) ==
  /\ ~Missing(returnUrl)
  /\ IsDefined(ParseUrl(ValueOf(returnUrl)))

isAllowedReturnUrl(returnUrl, allowedOrigins) ==
  IF Missing(returnUrl) THEN FALSE
  ELSE LET url == ParseUrl(ValueOf(returnUrl))
       IN IF ~IsDefined(url) THEN FALSE
          ELSE IF ValueOf(url).protocol \notin {<<"h", "t", "t", "p">> \o <<":">>, <<"h", "t", "t", "p", "s">> \o <<":">>}
               THEN FALSE
          ELSE IF allowedOrigins = <<>> THEN TRUE
          ELSE \E i \in 1..Len(allowedOrigins) : allowedOrigins[i] = ValueOf(url).origin

\* text.split(',')
RECURSIVE SplitAtCommas(_)
SplitAtCommas(text) ==
  LET comma == FirstOf(text, {","})
  IN IF comma = 0 THEN <<text>>
     ELSE <<SubSeq(text, 1, comma - 1)>> \o SplitAtCommas(Drop(text, comma))

\* s.trim(), for texts whose white space is the space character
RECURSIVE Trim(_)
Trim(text) ==
  IF text # <<>> /\ Head(text) = " " THEN Trim(Tail(text))
  ELSE IF text # <<>> /\ text[Len(text)] = " " THEN Trim(SubSeq(text, 1, Len(text) - 1))
  ELSE text

\* (env || '').split(',').map(s => s.trim()).filter(Boolean)
AllowedOrigins(env) ==
  LET fields == SplitAtCommas(OrEmpty(env))
  IN SelectSeq([i \in 1..Len(fields) |-> Trim(fields[i])], LAMBDA s : s # <<>>)

\* the response and the token requests of one call of the handler; exchange
\* is what the token endpoint answers
ghlOAuthCallbackHandler(env, query, exchange) ==
  LET statePayload == verifyState(query.state, env.stateSecret).payload
      returnUrl == ValueOf(statePayload).returnUrl
      sent == <<[url |-> "tokenUrl", code |-> ValueOf(query.code)]>>
  IN IF Missing(env.clientId) \/ env.stateSecret = <<>>
     THEN [requests |-> <<>>,
           response |-> [status |-> 500, kind |-> "json", error |-> Some("not configured")]]
     ELSE IF Missing(query.code)
     THEN [requests |-> <<>>,
           response |-> [status |-> 400, kind |-> "json", error |-> Some("Missing code")]]
     ELSE IF ~IsDefined(statePayload)
     THEN [requests |-> <<>>,
           response |-> [status |-> 400, kind |-> "json", error |-> Some("Invalid state")]]
     ELSE IF ~Missing(returnUrl)
             /\ ~isAllowedReturnUrl(returnUrl, AllowedOrigins(env.allowedReturnOrigins))
     THEN [requests |-> <<>>,
           response |-> [status |-> 400, kind |-> "json", error |-> Some("Invalid returnUrl")]]
     ELSE IF exchange # "ok"
     THEN [requests |-> sent,
           response |-> [status |-> 400, kind |-> "json",
                         error |-> Some("GHL token exchange failed")]]
     ELSE IF query.mode = Some("json") \/ Missing(returnUrl)
     THEN [requests |-> sent,
           response |-> [status |-> 200, kind |-> "json", error |-> Undefined]]
     ELSE [requests |-> sent,
           response |-> [status |-> 302, kind |-> "redirect", error |-> Undefined,
                         location |-> ValueOf(returnUrl)]]

----------------------------------------------------------------------------
(* Inputs of the callback *)

\* return URLs, each with the origin it has when it is an http or https URL
ReturnUrlChoices ==
  {[text |-> <<"h", "t", "t", "p", "s", ":", "/", "/", "a", ".", "c", "o", "m", "/",
             "x">>,
    origin |-> Some(<<"h", "t", "t", "p", "s", ":", "/", "/", "a", ".", "c", "o", "m">>)],
   [text |-> <<"h", "t", "t", "p", "s", ":", "/", "/", "b", ".", "c", "o", "m", "/",
             "x">>,
    origin |-> Some(<<"h", "t", "t", "p", "s", ":", "/", "/", "b", ".", "c", "o", "m">>)],
   [text |-> <<"h", "t", "t", "p", ":", "/", "/", "a", ".", "c", "o", "m">>,
    origin |-> Some(<<"h", "t", "t", "p", ":", "/", "/", "a", ".", "c", "o", "m">>)],
   [text |-> <<"H", "T", "T", "P", "S", ":", "/", "/", "A", ".", "c", "o", "m", "/",
             "x">>,
    origin |-> Some(<<"h", "t", "t", "p", "s", ":", "/", "/", "a", ".", "c", "o", "m">>)],
   [text |-> <<"h", "t", "t", "p", "s", ":", "/", "/", "a", ".", "c", "o", "m", "@",
             "b", ".", "c", "o", "m", "/", "x">>,
    origin |-> Some(<<"h", "t", "t", "p", "s", ":", "/", "/", "b", ".", "c", "o", "m">>)],
   [text |-> <<"j", "a", "v", "a", "s", "c", "r", "i", "p", "t", ":", "a", "l", "e",
             "r", "t", "(", "1", ")">>,
    origin |-> Undefined],
   [text |-> <<"f", "t", "p", ":", "/", "/", "a", ".", "c", "o", "m", "/", "x">>,
    origin |-> Undefined],
   [text |-> <<"/", "x">>,
    origin |-> Undefined],
   [text |-> <<"a", ".", "c", "o", "m", "/", "x">>,
    origin |-> Undefined]}

\* values of GHL_OAUTH_ALLOWED_RETURN_ORIGINS, each with the origins it lists
AllowlistChoices ==
  {[text |-> Undefined,
    origins |-> {}],
   [text |-> Some(<<" ", ",", " ">>),
    origins |-> {}],
   [text |-> Some(<<"h", "t", "t", "p", "s", ":", "/", "/", "a", ".", "c", "o", "m">>),
    origins |-> {<<"h", "t", "t", "p", "s", ":", "/", "/", "a", ".", "c", "o", "m">>}],
   [text |-> Some(<<"h", "t", "t", "p", "s", ":", "/", "/", "a", ".", "c", "o", "m",
             ",", " ", "h", "t", "t", "p", ":", "/", "/", "a", ".", "c", "o", "m">>),
    origins |-> {<<"h", "t", "t", "p", "s", ":", "/", "/", "a", ".", "c", "o", "m">>, <<"h", "t", "t", "p", ":", "/", "/", "a", ".", "c", "o", "m">>}],
   [text |-> Some(<<"h", "t", "t", "p", "s", ":", "/", "/", "b", ".", "c", "o", "m",
             "/">>),
    origins |-> {<<"h", "t", "t", "p", "s", ":", "/", "/", "b", ".", "c", "o", "m", "/">>}]}

\* the states a request can carry: states issued under the state secret for
\* any return URL, a state issued under another secret, an issued state with
\* its last character replaced, the data part alone, and none
CallbackStates ==
  LET issued(u, secret) == signState([iat |-> 7, returnUrl |-> u], secret).state
  IN {Some(issued(Some(c.text), <<"k", "1">>)) : c \in ReturnUrlChoices}
     \cup {Some(issued(Undefined, <<"k", "1">>)),
           Some(issued(Some(UrlText.plain), <<"k", "2">>)),
           Some(LastCharReplaced(issued(Some(UrlText.plain), <<"k", "1">>))),
           Some(Split(issued(Some(UrlText.plain), <<"k", "1">>))[1]),
           Undefined}

CallbackEnvs ==
  {[clientId |-> Some(<<"c", "i", "d">>), stateSecret |-> <<"k", "1">>, allowedReturnOrigins |-> a.text] :
     a \in AllowlistChoices}
  \cup {[clientId |-> Undefined, stateSecret |-> <<"k", "1">>, allowedReturnOrigins |-> Undefined],
        [clientId |-> Some(<<"c", "i", "d">>), stateSecret |-> <<>>, allowedReturnOrigins |-> Undefined]}

InitCallback ==
  /\ \E env \in CallbackEnvs, state \in CallbackStates :
       \E code \in {Undefined, Some(<<>>), Some(<<"a", "b", "c">>)}, mode \in {Undefined, Some("json")},
          exchange \in {"ok", "http_error"} :
         snapshot = [call |-> "ghlOAuthCallback", env |-> env,
                     query |-> [code |-> code, state |-> state, mode |-> mode],
                     exchange |-> exchange]
  /\ AnalysisIdle
  /\ IntegrationIdle

GhlOAuthCallback ==
  /\ callback = <<>>
  /\ LET outcome == ghlOAuthCallbackHandler(snapshot.env, snapshot.query, snapshot.exchange)
     IN /\ callback' = Some(outcome.response)
        /\ requests' = outcome.requests
  /\ UNCHANGED <<analysisVars, snapshot, signed, verified, connection, store, validation>>

NextCallback == GhlOAuthCallback

SpecCallback == InitCallback /\ [][NextCallback]_vars

\* the payload of the request's state when the state verifies against the
\* configured state secret
VerifiedPayload ==
  IF snapshot.env.stateSecret = <<>> THEN Undefined
  ELSE verifyState(snapshot.query.state, snapshot.env.stateSecret).payload

\* the return URL is an http or https URL whose origin the allowlist holds,
\* or any http or https URL when the allowlist holds no origin
AllowedBy(choice, allowlist) ==
  /\ IsDefined(choice.origin)
  /\ allowlist.origins = {} \/ ValueOf(choice.origin) \in allowlist.origins

\* the configured allowlist
Allowlist ==
  CHOOSE a \in AllowlistChoices : a.text = snapshot.env.allowedReturnOrigins

\* the state carries no return URL, or one that is allowed
ReturnUrlPassed ==
  /\ IsDefined(VerifiedPayload)
  /\ LET url == ValueOf(VerifiedPayload).returnUrl
     IN IsDefined(url) =>
          \E c \in ReturnUrlChoices : c.text = ValueOf(url) /\ AllowedBy(c, Allowlist)

\* C26: the handler sends a token request only when the code is present, the
\* state verifies against the state secret and the return URL of the state,
\* if any, is allowed; a request without a code, with an invalid state or
\* with a disallowed return URL gets an error response, no token request and
\* no redirect; and isAllowedReturnUrl allows a return URL only when it is an
\* http or https URL whose origin is in the allowlist, if one is configured
C26_ExchangeAfterChecks ==
  callback # <<>> =>
    /\ requests # <<>> =>
         /\ ~Missing(snapshot.query.code)
         /\ IsDefined(VerifiedPayload)
         /\ ReturnUrlPassed
    /\ (Missing(snapshot.query.code) \/ ~IsDefined(VerifiedPayload) \/ ~ReturnUrlPassed) =>
         /\ ValueOf(callback).status >= 400
         /\ IsDefined(ValueOf(callback).error)
         /\ ValueOf(callback).kind # "redirect"
         /\ requests = <<>>
    /\ \A c \in ReturnUrlChoices, a \in AllowlistChoices :
         isAllowedReturnUrl(Some(c.text), AllowedOrigins(a.text)) => AllowedBy(c, a)

\* a callback with a code and a state that carries an allowed return URL,
\* under a configured allowlist: one token request, answered by a redirect
C26_Witness ==
  /\ callback # <<>>
  /\ ValueOf(callback).kind = "redirect"
  /\ Len(requests) = 1
  /\ Allowlist.origins # {}
  /\ ReturnUrlPassed

====
